---- MODULE Spec2Model ----
(***************************************************************************)
(* crab-dlna: the playback session (dlna::play), the retry policy it uses  *)
(* (utils::retry_with_backoff), the subtitle-sync clock and streaming      *)
(* server tasks it spawns, and the CLI play loop (PlayCommand::run) that   *)
(* calls play() once per playlist entry; the playlist (media::Playlist)    *)
(* as a component of its own; and dlna::toggle_play_pause.                 *)
(*                                                                         *)
(* Specifications:                                                         *)
(*   Spec             the play command without --interactive               *)
(*   SpecInteractive  the play command with --interactive                  *)
(*   SpecSubtitleSync the play command of one file, --subtitle-sync kept   *)
(*   SpecFailing      the play command when every dlna::play fails (fair)  *)
(*   SpecPlaylist     a Playlist under any sequence of calls of its methods*)
(*   SpecToggle       calls of toggle_play_pause against a device          *)
(*   SpecRender       calls of a Render's queries and commands             *)
(*   SpecDevices      calls of Render::discover and of Render::new         *)
(*   SpecStreaming    a MediaStreamingServer: new, run and its requests    *)
(*   SpecSubtitle     a SubtitleSyncer and the lookups made of it          *)
(*   SpecClipboard    a SubtitleSyncer and the clipboard pushes made of it *)
(*   SpecTui          TuiApp::run: the event loop and the status updater   *)
(*   SpecDirectory    a call of Playlist::from_directory                   *)
(*   SpecTime         a call of time_str_to_milliseconds                   *)
(***************************************************************************)
EXTENDS Integers, Sequences, FiniteSets, TLC

(***************************************************************************)
(* Bounds of the model.                                                    *)
(***************************************************************************)
\* number of entries of the playlist
NumFiles == 2
\* cap on the number of play() calls of one command (playlist mode loops)
MaxSessions == 2
\* cap on the length a playlist grows to by add_file
MaxPlaylistLen == 3
\* cap on the number of consecutive next_file calls that are counted
MaxStreak == 2 * MaxPlaylistLen + 1

(***************************************************************************)
(* Program constants.                                                      *)
(***************************************************************************)
MAX_NETWORK_RETRIES == 3
BASE_DELAY_MS == 100

\* Option<T>: None is the empty sequence, Some(x) the one-element sequence.
None == << >>
Some(x) == << x >>

\* The error values an action of the device can fail with (rupnp::Error).
ErrVals == {"e1", "e2"}
\* The outcomes of one invocation of a retried operation.
OpOutcomes == {"ok"} \cup ErrVals

Sessions == 1..MaxSessions

VARIABLES
    \* ---- PlayCommand::run
    files,          \* playlist.files: the entries, in order
    current_index,  \* playlist.current_index: Option<usize>, 0-based
    loop_playlist,  \* playlist.loop_playlist
    playlist_mode,  \* args.playlist
    cliPc,          \* "loop" | "playing" | "done"
    play_result,    \* the loop's play_result
    cmd_result,     \* what run() returned (None until it returns)
    cur,            \* number of play() calls made so far; the current call
    sessFile,       \* sessFile[s]: the entry played by call s (0: not started)
    interactive,    \* the task of interactive_handle:
                    \* "none" | "running" | "finished" | "aborted"
    \* ---- dlna::play, the current call
    pc,             \* "idle" | "start" | "set_uri" | "play" | "join" | "returned"
    syncer,         \* whether subtitle_syncer is Some
    retry,          \* the state of the running retry_with_backoff
    opHistory,      \* outcomes of the operation's invocations in this retry
    ret,            \* ret[s]: what call s of play() returned
    \* ---- background tasks, per call of play()
    server,         \* "none" | "running" | "completed" | "panicked"
    clock,          \* "none" | "waiting" | "polling" | "aborted"
    lastTick,       \* << s, o >>: the last tick that finished was clock s's, with
                    \* outcome o (None: no tick yet, or that clock was aborted)
    \* ---- the device's view
    log             \* the device's view of the running play() call, kept while
                    \* the call is in its retried actions or has failed in them:
                    \* each SetAVTransportURI and Play, sent and answered
                    \* (in SpecToggle: the actions of the running
                    \* toggle_play_pause call)
VARIABLES
    \* ---- a Playlist driven through its methods (SpecPlaylist)
    call,           \* the last method call: its name, the playlist it was made
                    \* on (files, current_index, loop_playlist) and what it returned
    streak,         \* number of next_file calls made since the cursor was fresh
                    \* (new or reset) with no other call between; -1: not counted
    \* ---- dlna::toggle_play_pause (SpecToggle)
    tpc,            \* "idle" | "read" | "match" | "command" | "returned"
    transport_state,\* transport_info.transport_state once read (None before)
    commands,       \* the calls of pause() and resume() made by the running call
    toggle_result   \* what the call returned
VARIABLES
    \* ---- one call of an operation of Render or of dlna::actions (SpecRender)
    rpc,            \* "idle" | "query" | "command" | "returned"
    rop,            \* the operation called: "get_position_info",
                    \* "get_transport_info", "pause" or "resume" ("" before)
    response,       \* the response of the device to the query (None: none yet)
    rret            \* what the operation returned
VARIABLES
    \* ---- one call of Render::discover or of Render::new (SpecDevices)
    dpc,            \* "idle" | "discovering" | "creating" | "returned"
    render_spec,    \* the RenderSpec given to Render::new (None: discover was
                    \* called directly)
    responses,      \* the items the discovery stream has yielded so far
    renders,        \* discover's renders: Vec<Render>
    discovered_urls,\* discover's discovered_urls: HashSet<String>
    device,         \* select_by_url: the device made from the URL (None: none)
    dret            \* what the call returned
VARIABLES
    \* ---- one MediaStreamingServer: new, run and the GETs it answers
    \* (SpecStreaming)
    spc,            \* "idle" | "constructed" | "running"
    existing,       \* the paths that exist in the file system
    new_args,       \* the arguments of MediaStreamingServer::new
    new_ret,        \* what MediaStreamingServer::new returned
    request,        \* the last request received (None: none yet)
    reply           \* the reply to it
VARIABLES
    \* ---- one SubtitleSyncer and the lookups made of it (SpecSubtitle)
    sbpc,           \* "idle" | "failed" (new returned Err) | "ready" |
                    \* "returned"
    events,         \* the events of the subtitle file, in the file's order
    entries,        \* SubtitleSyncer.entries
    current_time_ms,\* the argument of the last get_current_subtitle
    subtitle,       \* what it returned
    clip_init,      \* what Clipboard::new returned: "none" (not called) |
                    \* "ok" | "err"
    clipboard,      \* SubtitleSyncer.clipboard
    push            \* what the last update_clipboard did: "none" (no call
                    \* yet) | "skipped" (no set_text) | "written" | "failed"
VARIABLES
    \* ---- TuiApp::run: the event loop and the status update task (SpecTui)
    mpc,            \* where the event loop is
    upc,            \* where the status update task is
    lock,           \* who holds the Mutex of the AppState: "none" |
                    \* "updater" | "main"
    should_quit,    \* AppState.should_quit
    show_help,      \* AppState.show_help
    last_update,    \* who made the last update_status ("none": nobody yet)
    key_code,       \* the key being handled
    tried           \* the holder the update task's last try_lock met (None:
                    \* it has not tried yet)
VARIABLES
    \* ---- the arguments of the subtitle syncer (SpecSubtitleSync)
    subtitle_sync,  \* args.subtitle_sync
    subtitle_file,  \* the subtitle file of the current session's server
    syncer_new      \* what SubtitleSyncer::new returned for the current
                    \* session: "none" (not called) | "ok" | "err"

VARIABLES
    \* ---- one call of time_str_to_milliseconds (SpecTime)
    time_str,       \* the argument (None: not called)
    overflow_checks,\* whether the build checks integer overflow
    time_ret        \* what the call did: None, or whether it panicked and
                    \* the value it returned

VARIABLES
    \* ---- one call of Playlist::from_directory (SpecDirectory)
    dir_path,       \* what is at dir_path: "" (not called) | "missing" |
                    \* "file" | "dir"
    dir_entries,    \* what read_dir yields, in the order it yields it
    dir_ret         \* what from_directory returned

cliVars == << files, current_index, loop_playlist, playlist_mode, cliPc,
              play_result, cmd_result, cur, sessFile, interactive >>
playVars == << pc, syncer, retry, opHistory, ret >>
taskVars == << server, clock, lastTick >>
plVars == << call, streak >>
tgVars == << tpc, transport_state, commands, toggle_result >>
rdVars == << rpc, rop, response, rret >>
\* the variables of the components that follow the playlist and the toggle
dvVars == << dpc, render_spec, responses, renders, discovered_urls, device, dret >>
stVars == << spc, existing, new_args, new_ret, request, reply >>
sbVars == << sbpc, events, entries, current_time_ms, subtitle, clip_init, clipboard, push >>
tuVars == << mpc, upc, lock, should_quit, show_help, last_update, key_code, tried >>
fdVars == << dir_path, dir_entries, dir_ret >>
ssVars == << subtitle_sync, subtitle_file, syncer_new >>
tmVars == << time_str, overflow_checks, time_ret >>
unitVars == << rdVars, dvVars, stVars, sbVars, tuVars, fdVars, tmVars, ssVars >>
\* the components besides the one named
unitsButRender == << dvVars, stVars, sbVars, tuVars, fdVars, tmVars, ssVars >>
unitsButDevices == << rdVars, stVars, sbVars, tuVars, fdVars, tmVars, ssVars >>
unitsButStreaming == << rdVars, dvVars, sbVars, tuVars, fdVars, tmVars, ssVars >>
unitsButSubtitle == << rdVars, dvVars, stVars, tuVars, fdVars, tmVars, ssVars >>
unitsButTui == << rdVars, dvVars, stVars, sbVars, fdVars, tmVars, ssVars >>
unitsButTime == << rdVars, dvVars, stVars, sbVars, tuVars, fdVars, ssVars >>
unitsButDirectory == << rdVars, dvVars, stVars, sbVars, tuVars, tmVars, ssVars >>
\* the components besides the arguments of the subtitle syncer
componentVars == << rdVars, dvVars, stVars, sbVars, tuVars, fdVars, tmVars >>
\* the variables the play command does not touch
otherVars == << plVars, tgVars, unitVars >>
\* the variables of PlayCommand::run besides its playlist
cliRest == << playlist_mode, cliPc, play_result, cmd_result, cur, sessFile,
              interactive >>
vars == << cliVars, playVars, taskVars, log, otherVars >>

(***************************************************************************)
(* Results of play() and of the command.                                   *)
(***************************************************************************)
NoRet == [kind |-> "none", source |-> "", uri |-> << >>]
OkRet == [kind |-> "Ok", source |-> "", uri |-> << >>]
ErrRet(kind, source, uri) == [kind |-> kind, source |-> source, uri |-> uri]

\* streaming_server.video_uri(): format!("{}/{}", host_uri, file_uri), the
\* file_uri being derived from the served file
video_uri(file) == << "host_uri", file >>


(***************************************************************************)
(* utils::retry_with_backoff.  The record r is the state of one call:      *)
(*   pc         "call" (about to invoke operation()), "inflight" (awaiting *)
(*              it), "sleep" (awaiting the backoff delay), "returned"      *)
(*   attempt    the loop variable, 1..=MAX_NETWORK_RETRIES                 *)
(*   last_error Option<E>                                                  *)
(*   pending    the error of the failed attempt while the delay runs       *)
(*   calls      number of invocations of operation() so far                *)
(*   delays     the delays slept so far, in milliseconds                   *)
(*   result     None until the call returns, then Some(Ok | Err(e))        *)
(***************************************************************************)
RetryStart ==
    [pc |-> "call", attempt |-> 1, last_error |-> None, pending |-> None,
     calls |-> 0, delays |-> << >>, result |-> None]

RetryInvoke(r) == [r EXCEPT !.pc = "inflight", !.calls = @ + 1]

\* a delay that doubles one attempt too early
RetryDelayEarly(attempt) == BASE_DELAY_MS * (2 ^ attempt)

\* Duration::from_millis(100 * (1 << (attempt - 1)))
RetryDelay(attempt) == BASE_DELAY_MS * (2 ^ (attempt - 1))

\* a retry loop that forgets to return on success
RetryOnOkNoReturn(r) ==
    IF r.attempt < MAX_NETWORK_RETRIES
    THEN [r EXCEPT !.pc = "call", !.attempt = @ + 1]
    ELSE [r EXCEPT !.pc = "returned", !.result = Some([ok |-> TRUE, val |-> "ok"])]

\* Ok(result) => return Ok(result)
RetryOnOk(r) ==
    [r EXCEPT !.pc = "returned", !.result = Some([ok |-> TRUE, val |-> "ok"])]

\* a retry loop that keeps an earlier attempt's error
RetryOnErrKeepEarlier(r, e) ==
    IF r.attempt < MAX_NETWORK_RETRIES
    THEN [r EXCEPT !.pc = "sleep",
                   !.delays = Append(@, RetryDelay(r.attempt)),
                   !.pending = Some(e)]
    ELSE LET le == IF r.last_error = None THEN e ELSE r.last_error[1]
         IN [r EXCEPT !.pc = "returned", !.last_error = Some(le),
                      !.result = Some([ok |-> FALSE, val |-> le])]

\* Err(error): sleep when attempt < MAX_NETWORK_RETRIES; otherwise
\* last_error = Some(error), the loop ends and Err(last_error.unwrap())
\* is returned
RetryOnErr(r, e) ==
    IF r.attempt < MAX_NETWORK_RETRIES
    THEN [r EXCEPT !.pc = "sleep",
                   !.delays = Append(@, RetryDelay(r.attempt)),
                   !.pending = Some(e)]
    ELSE [r EXCEPT !.pc = "returned", !.last_error = Some(e),
                   !.result = Some([ok |-> FALSE, val |-> e])]

\* after sleep(delay).await: last_error = Some(error); next iteration
RetryAfterSleep(r) ==
    [r EXCEPT !.pc = "call", !.last_error = r.pending, !.pending = None, !.attempt = @ + 1]

(***************************************************************************)
(* media::Playlist::next_file on (files, current_index, loop_playlist):    *)
(* the new cursor and the returned entry (None, or Some(file)).            *)
(***************************************************************************)
\* a cursor that walks past the end of the playlist
NextIndexPastEnd(fs, idx, lp) ==
    IF idx = None THEN Some(0)
    ELSE IF idx[1] + 1 >= Len(fs) /\ lp THEN Some(0)
    ELSE Some(idx[1] + 1)

\* a cursor that ignores the loop flag at the end of the playlist
NextIndexNoWrap(fs, idx, lp) ==
    IF Len(fs) = 0 THEN idx
    ELSE IF idx = None THEN Some(0)
    ELSE IF idx[1] + 1 >= Len(fs) THEN idx
    ELSE Some(idx[1] + 1)

\* a cursor that goes back to None at the end of a playlist that does not loop
NextIndexResetAtEnd(fs, idx, lp) ==
    IF Len(fs) = 0 THEN idx
    ELSE IF idx = None THEN Some(0)
    ELSE IF idx[1] + 1 >= Len(fs)
         THEN (IF lp THEN Some(0) ELSE None)
         ELSE Some(idx[1] + 1)

NextIndex(fs, idx, lp) ==
    IF Len(fs) = 0 THEN idx
    ELSE IF idx = None THEN Some(0)
    ELSE IF idx[1] + 1 >= Len(fs)
         THEN (IF lp THEN Some(0) ELSE idx)
         ELSE Some(idx[1] + 1)

NextFile(fs, idx, lp) ==
    IF Len(fs) = 0 THEN None
    ELSE IF idx # None /\ idx[1] + 1 >= Len(fs) /\ ~lp THEN None
    ELSE LET n == NextIndex(fs, idx, lp)
         IN IF n[1] < Len(fs) THEN Some(fs[n[1] + 1]) ELSE None


(***************************************************************************)
(* media::Playlist::current_file and previous_file, as next_file above.    *)
(***************************************************************************)
\* self.current_index.and_then(|index| self.files.get(index))
CurrentFile(fs, idx) ==
    IF idx # None /\ idx[1] < Len(fs) THEN Some(fs[idx[1] + 1]) ELSE None

\* a cursor that wraps at the first entry whatever the loop flag
PreviousIndexAlwaysWrap(fs, idx, lp) ==
    IF Len(fs) = 0 THEN idx
    ELSE IF idx = None THEN Some(Len(fs) - 1)
    ELSE IF idx[1] = 0 THEN Some(Len(fs) - 1)
    ELSE Some(idx[1] - 1)

PreviousIndex(fs, idx, lp) ==
    IF Len(fs) = 0 THEN idx
    ELSE IF idx = None THEN Some(Len(fs) - 1)
    ELSE IF idx[1] = 0
         THEN (IF lp THEN Some(Len(fs) - 1) ELSE idx)
         ELSE Some(idx[1] - 1)

PreviousFile(fs, idx, lp) ==
    IF Len(fs) = 0 THEN None
    ELSE IF idx # None /\ idx[1] = 0 /\ ~lp THEN None
    ELSE CurrentFile(fs, PreviousIndex(fs, idx, lp))

(***************************************************************************)
(* The components outside the play command, at rest.                       *)
(***************************************************************************)
\* no method of the playlist has been called yet
NoCall ==
    [op |-> "new", prev |-> "new", arg |-> None, files |-> << >>,
     current_index |-> None, loop_playlist |-> FALSE, ret |-> None]

PlaylistAtRest == call = NoCall /\ streak = 0

ToggleAtRest ==
    /\ tpc = "idle"
    /\ transport_state = None
    /\ commands = << >>
    /\ toggle_result = NoRet

RenderAtRest ==
    /\ rpc = "idle"
    /\ rop = ""
    /\ response = None
    /\ rret = NoRet

DevicesAtRest ==
    /\ dpc = "idle"
    /\ render_spec = None
    /\ responses = << >>
    /\ renders = << >>
    /\ discovered_urls = {}
    /\ device = None
    /\ dret = NoRet

StreamingAtRest ==
    /\ spc = "idle"
    /\ existing = {}
    /\ new_args = None
    /\ new_ret = NoRet
    /\ request = None
    /\ reply = None

SubtitleAtRest ==
    /\ sbpc = "idle"
    /\ events = << >>
    /\ entries = << >>
    /\ current_time_ms = 0
    /\ subtitle = None
    /\ clip_init = "none"
    /\ clipboard = None
    /\ push = "none"

TuiAtRest ==
    /\ mpc = "idle"
    /\ upc = "idle"
    /\ lock = "none"
    /\ should_quit = FALSE
    /\ show_help = FALSE
    /\ last_update = "none"
    /\ key_code = ""
    /\ tried = None

DirectoryAtRest ==
    /\ dir_path = ""
    /\ dir_entries = << >>
    /\ dir_ret = NoRet

\* --subtitle-sync was not given and no syncer has been asked for
SubtitleArgsAtRest ==
    /\ subtitle_sync = FALSE
    /\ subtitle_file = None
    /\ syncer_new = "none"

TimeAtRest ==
    /\ time_str = None
    /\ overflow_checks = FALSE
    /\ time_ret = None

ComponentsAtRest ==
    /\ TimeAtRest
    /\ DirectoryAtRest
    /\ RenderAtRest
    /\ DevicesAtRest
    /\ StreamingAtRest
    /\ SubtitleAtRest
    /\ TuiAtRest

UnitsAtRest ==
    /\ SubtitleArgsAtRest
    /\ ComponentsAtRest

(***************************************************************************)
(* The initial state: PlayCommand::run has selected the render, built the  *)
(* playlist, called playlist.set_loop(args.playlist) and, when             *)
(* args.interactive is set, spawned start_interactive_control.             *)
(***************************************************************************)
\* no call of dlna::play has been made
SessionAtRest ==
    /\ pc = "idle"
    /\ syncer = FALSE
    /\ retry = RetryStart
    /\ opHistory = << >>
    /\ ret = [s \in Sessions |-> NoRet]
    /\ server = [s \in Sessions |-> "none"]
    /\ clock = [s \in Sessions |-> "none"]
    /\ lastTick = None
    /\ log = << >>

InitPlayCommand(args_interactive) ==
    /\ interactive = (IF args_interactive THEN "running" ELSE "none")
    /\ PlaylistAtRest
    /\ ToggleAtRest
    /\ UnitsAtRest
    /\ files = [i \in 1..NumFiles |-> i]
    /\ current_index = None
    /\ playlist_mode \in BOOLEAN
    /\ loop_playlist = playlist_mode
    /\ cliPc = "loop"
    /\ play_result = OkRet
    /\ cmd_result = None
    /\ cur = 0
    /\ sessFile = [s \in Sessions |-> 0]
    /\ SessionAtRest

Init == InitPlayCommand(FALSE)

\* JoinHandle::abort: a task that still runs is cancelled, one that has
\* ended is left as it is
Abort(c) == IF c \in {"waiting", "polling", "running"} THEN "aborted" ELSE c

(***************************************************************************)
(* PlayCommand::run, the loop `while let Some(current_file) =              *)
(* playlist.next_file()`.                                                  *)
(***************************************************************************)
\* what build_media_streaming_server_for_file can fail with
BuildErrors ==
    {"MediaFileNotFound", "LocalAddressResolutionFailed", "NetworkAddressParseError"}

\* a syncer built whenever --subtitle-sync was given
SubtitleSyncerForRequested(requested, path, new_ok) ==
    IF requested THEN Some("syncer") ELSE None

\* play.rs 77-97: the syncer handed to dlna::play.  It is Some only when
\* --subtitle-sync was given, the session's server has a subtitle file and
\* SubtitleSyncer::new(path) returned Ok; in the two other cases a message is
\* printed and the value is None
SubtitleSyncerFor(requested, path, new_ok) ==
    IF requested
    THEN IF path # None
         THEN IF new_ok THEN Some("syncer") ELSE None
         ELSE None
    ELSE None

\* the outcome of SubtitleSyncer::new in the same expression: it is called
\* only on the branch that found a subtitle path
SyncerNewOutcome(requested, path, new_ok) ==
    IF requested /\ path # None THEN (IF new_ok THEN "ok" ELSE "err") ELSE "none"

\* the subtitle file a session's server can have
SubtitleFiles == {None, Some("srt")}

\* One pass through the loop head, up to the await of dlna::play:
\*  - next_file() returns None: the loop ends, interactive_handle is aborted
\*    and run() returns play_result;
\*  - build_media_streaming_server_for_file(..)? fails: run() returns that
\*    error from inside the loop;
\*  - otherwise the server is built, the syncer is Some or None, and
\*    dlna::play is called.
\* requested is args.subtitle_sync, path the server's subtitle_file_path()
\* and new_ok whether SubtitleSyncer::new succeeds on it.  The variables
\* that keep the arguments are set by the two actions below.
CliIterateWith(requested, path, new_ok) ==
    /\ cliPc = "loop"
    /\ current_index' = NextIndex(files, current_index, loop_playlist)
    /\ LET f == NextFile(files, current_index, loop_playlist)
       IN IF f = None
          THEN /\ cliPc' = "done"
               /\ interactive' = Abort(interactive)
               /\ cmd_result' = Some(play_result)
               /\ UNCHANGED << cur, sessFile, pc, syncer, log >>
          ELSE /\ cur < MaxSessions
               /\ \E buildOk \in BOOLEAN :
                    IF buildOk
                    THEN /\ cur' = cur + 1
                         /\ sessFile' = [sessFile EXCEPT ![cur + 1] = f[1]]
                         /\ syncer' = (SubtitleSyncerFor(requested, path, new_ok) # None)
                         /\ cliPc' = "playing"
                         /\ pc' = "start"
                         /\ log' = << >>
                         /\ UNCHANGED << cmd_result, interactive >>
                    ELSE /\ cliPc' = "done"
                         /\ \E kind \in BuildErrors :
                              cmd_result' = Some(ErrRet(kind, "", << >>))
                         /\ UNCHANGED << cur, sessFile, pc, syncer, log, interactive >>
    /\ UNCHANGED << files, loop_playlist, playlist_mode, play_result,
                    retry, opHistory, ret, taskVars, plVars, tgVars, componentVars >>

\* the loop head of a command whose --subtitle-sync argument is kept in
\* subtitle_sync; once a server is built its subtitle file and the outcome
\* of SubtitleSyncer::new are kept too
CliIterateArgs ==
    \E path \in SubtitleFiles, new_ok \in BOOLEAN :
        /\ CliIterateWith(subtitle_sync, path, new_ok)
        /\ IF cliPc' = "playing"
           THEN /\ subtitle_file' = path
                /\ syncer_new' = SyncerNewOutcome(subtitle_sync, path, new_ok)
           ELSE UNCHANGED << subtitle_file, syncer_new >>
        /\ UNCHANGED subtitle_sync

\* the loop head when the arguments and the subtitle file are left open: the
\* syncer is Some or None
CliIterate ==
    \E requested \in BOOLEAN, path \in SubtitleFiles, new_ok \in BOOLEAN :
        /\ CliIterateWith(requested, path, new_ok)
        /\ UNCHANGED ssVars

\* a loop that stops at the first failed entry in playlist mode too
CliAfterPlayStopOnErr ==
    /\ cliPc = "playing"
    /\ pc = "returned"
    /\ play_result' = ret[cur]
    /\ pc' = "idle"
    /\ IF ~playlist_mode \/ ret[cur].kind # "Ok"
       THEN /\ cliPc' = "done"
            /\ interactive' = Abort(interactive)
            /\ cmd_result' = Some(ret[cur])
       ELSE /\ cliPc' = "loop"
            /\ UNCHANGED << cmd_result, interactive >>
    /\ syncer' = FALSE
    /\ log' = << >>
    /\ UNCHANGED << files, current_index, loop_playlist, playlist_mode, cur, sessFile,
                    retry, opHistory, ret, taskVars, otherVars >>

\* dlna::play(..).await has returned (its arguments and locals are gone):
\* record the result; when not in playlist mode leave the loop, abort
\* interactive_handle and return play_result
CliAfterPlay ==
    /\ cliPc = "playing"
    /\ pc = "returned"
    /\ play_result' = ret[cur]
    /\ pc' = "idle"
    /\ IF ~playlist_mode
       THEN /\ cliPc' = "done"
            /\ interactive' = Abort(interactive)
            /\ cmd_result' = Some(ret[cur])
       ELSE /\ cliPc' = "loop"
            /\ UNCHANGED << cmd_result, interactive >>
    /\ syncer' = FALSE
    /\ log' = << >>
    /\ UNCHANGED << files, current_index, loop_playlist, playlist_mode, cur, sessFile,
                    retry, opHistory, ret, taskVars, otherVars >>


(***************************************************************************)
(* dlna::play.                                                             *)
(***************************************************************************)
\* the name of the action the running retry_with_backoff sends
ActionName == IF pc = "set_uri" THEN "SetAVTransportURI" ELSE "Play"

\* .map_err(|err| Error::DlnaSetTransportUriFailed { source: err, uri: video_uri })
SetUriError(e, file) == ErrRet("DlnaSetTransportUriFailed", e, video_uri(file))

\* .map_err(|err| Error::DlnaPlaybackFailed { source: err, context })
PlaybackError(e) == ErrRet("DlnaPlaybackFailed", e, << >>)

\* .map_err(|err| Error::StreamingServerError { source: err, context })
ServerError == ErrRet("StreamingServerError", "JoinError", << >>)

\* a play() that goes to SetAVTransportURI without having spawned the server
PlayStartNoSpawn ==
    /\ pc = "start"
    /\ \E metaOk \in BOOLEAN :
         IF metaOk
         THEN /\ retry' = RetryStart
              /\ opHistory' = << >>
              /\ pc' = "set_uri"
              /\ UNCHANGED << ret, server >>
         ELSE /\ ret' = [ret EXCEPT ![cur] = ErrRet("TemplateRenderError", "", << >>)]
              /\ pc' = "returned"
              /\ UNCHANGED << server, retry, opHistory >>
    /\ UNCHANGED << cliVars, syncer, clock, lastTick, log, otherVars >>

\* a play() that spawns the subtitle-sync clock along with the server
PlayStartSpawnsClock ==
    /\ pc = "start"
    /\ \E metaOk \in BOOLEAN :
         IF metaOk
         THEN /\ server' = [server EXCEPT ![cur] = "running"]
              /\ clock' = [clock EXCEPT ![cur] = IF syncer THEN "waiting" ELSE "none"]
              /\ retry' = RetryStart
              /\ opHistory' = << >>
              /\ pc' = "set_uri"
              /\ UNCHANGED ret
         ELSE /\ ret' = [ret EXCEPT ![cur] = ErrRet("TemplateRenderError", "", << >>)]
              /\ pc' = "returned"
              /\ UNCHANGED << server, clock, retry, opHistory >>
    /\ UNCHANGED << cliVars, syncer, lastTick, log, otherVars >>

\* build_metadata(..)? and build_setavtransporturi_payload(..)?, then
\* tokio::spawn(streaming_server.run()) and the call of retry_with_backoff
\* for SetAVTransportURI
PlayStart ==
    /\ pc = "start"
    /\ \E metaOk \in BOOLEAN :
         IF metaOk
         THEN /\ server' = [server EXCEPT ![cur] = "running"]
              /\ retry' = RetryStart
              /\ opHistory' = << >>
              /\ pc' = "set_uri"
              /\ UNCHANGED ret
         ELSE /\ ret' = [ret EXCEPT ![cur] = ErrRet("TemplateRenderError", "", << >>)]
              /\ pc' = "returned"
              /\ UNCHANGED << server, retry, opHistory >>
    /\ UNCHANGED << cliVars, syncer, clock, lastTick, log, otherVars >>

\* retry_with_backoff: operation() is invoked, the action goes to the device
RetrySend ==
    /\ pc \in {"set_uri", "play"}
    /\ retry.pc = "call"
    /\ retry' = RetryInvoke(retry)
    /\ log' = Append(log, << cur, ActionName, "send" >>)
    /\ UNCHANGED << cliVars, pc, syncer, opHistory, ret, taskVars, otherVars >>

\* retry_with_backoff: operation().await yields Ok or Err(e)
RetryOpReturns ==
    /\ pc \in {"set_uri", "play"}
    /\ retry.pc = "inflight"
    /\ \E o \in OpOutcomes :
         /\ retry' = IF o = "ok" THEN RetryOnOk(retry) ELSE RetryOnErr(retry, o)
         /\ opHistory' = Append(opHistory, o)
         /\ log' = Append(log, << cur, ActionName, IF o = "ok" THEN "ok" ELSE "err" >>)
    /\ UNCHANGED << cliVars, pc, syncer, ret, taskVars, otherVars >>

\* retry_with_backoff: sleep(delay).await is over
RetryWake ==
    /\ pc \in {"set_uri", "play"}
    /\ retry.pc = "sleep"
    /\ retry' = RetryAfterSleep(retry)
    /\ UNCHANGED << cliVars, pc, syncer, opHistory, ret, taskVars, log, otherVars >>

\* a play() that does not await SetAVTransportURI before going on to Play
PlayAfterSetUriNoAwait ==
    /\ pc = "set_uri"
    /\ retry.pc \in {"inflight", "returned"}
    /\ pc' = "play"
    /\ retry' = RetryStart
    /\ opHistory' = << >>
    /\ UNCHANGED << cliVars, syncer, ret, taskVars, log, otherVars >>

\* a play() that ignores the failure of SetAVTransportURI
PlayAfterSetUriIgnoreErr ==
    /\ pc = "set_uri"
    /\ retry.pc = "returned"
    /\ pc' = "play"
    /\ retry' = RetryStart
    /\ opHistory' = << >>
    /\ UNCHANGED << cliVars, syncer, ret, taskVars, log, otherVars >>

\* retry_with_backoff(SetAVTransportURI).await.map_err(..)? : on Err play()
\* returns, on Ok it calls retry_with_backoff for Play (the finished call's
\* locals are gone either way)
PlayAfterSetUri ==
    /\ pc = "set_uri"
    /\ retry.pc = "returned"
    /\ IF retry.result[1].ok
       THEN /\ pc' = "play"
            /\ UNCHANGED ret
       ELSE /\ ret' = [ret EXCEPT ![cur] = SetUriError(retry.result[1].val, sessFile[cur])]
            /\ pc' = "returned"
    /\ retry' = RetryStart
    /\ opHistory' = << >>
    /\ UNCHANGED << cliVars, syncer, taskVars, log, otherVars >>

\* a play() that spawns the clock before it looks at the result of Play
PlayAfterPlayClockFirst ==
    /\ pc = "play"
    /\ retry.pc = "returned"
    /\ clock' = [clock EXCEPT ![cur] = IF syncer THEN "waiting" ELSE "none"]
    /\ IF retry.result[1].ok
       THEN pc' = "join" /\ log' = << >> /\ UNCHANGED ret
       ELSE /\ ret' = [ret EXCEPT ![cur] = PlaybackError(retry.result[1].val)]
            /\ pc' = "returned"
            /\ UNCHANGED log
    /\ retry' = RetryStart
    /\ opHistory' = << >>
    /\ UNCHANGED << cliVars, syncer, server, lastTick, otherVars >>

\* retry_with_backoff(Play).await.map_err(..)? : on Err play() returns, on Ok
\* it spawns the subtitle-sync clock when a syncer was supplied and goes on
\* to await the streaming server's handle
PlayAfterPlay ==
    /\ pc = "play"
    /\ retry.pc = "returned"
    /\ IF retry.result[1].ok
       THEN /\ clock' = [clock EXCEPT ![cur] = IF syncer THEN "waiting" ELSE "none"]
            /\ pc' = "join"
            /\ log' = << >>
            /\ UNCHANGED ret
       ELSE /\ ret' = [ret EXCEPT ![cur] = PlaybackError(retry.result[1].val)]
            /\ pc' = "returned"
            /\ UNCHANGED << clock, log >>
    /\ retry' = RetryStart
    /\ opHistory' = << >>
    /\ UNCHANGED << cliVars, syncer, server, lastTick, otherVars >>

\* a play() that returns Ok without awaiting the server's handle
PlayJoinNoAwait ==
    /\ pc = "join"
    /\ clock' = [clock EXCEPT ![cur] = Abort(@)]
    /\ lastTick' = IF lastTick # None /\ lastTick[1] = cur THEN None ELSE lastTick
    /\ ret' = [ret EXCEPT ![cur] = OkRet]
    /\ pc' = "returned"
    /\ UNCHANGED << cliVars, syncer, retry, opHistory, server, log, otherVars >>

\* a play() that takes a faulted server task for a finished one
PlayJoinSwallowFault ==
    /\ pc = "join"
    /\ server[cur] \in {"completed", "panicked"}
    /\ clock' = [clock EXCEPT ![cur] = Abort(@)]
    /\ lastTick' = IF lastTick # None /\ lastTick[1] = cur THEN None ELSE lastTick
    /\ ret' = [ret EXCEPT ![cur] = OkRet]
    /\ pc' = "returned"
    /\ UNCHANGED << cliVars, syncer, retry, opHistory, server, log, otherVars >>

\* streaming_server_handle.await.map_err(..)? : on a JoinError play() returns
\* StreamingServerError at once; otherwise it aborts the clock's handle, if
\* there is one, and returns Ok(())
PlayJoin ==
    /\ pc = "join"
    /\ server[cur] \in {"completed", "panicked"}
    /\ IF server[cur] = "completed"
       THEN /\ clock' = [clock EXCEPT ![cur] = Abort(@)]
            /\ lastTick' = IF lastTick # None /\ lastTick[1] = cur THEN None ELSE lastTick
            /\ ret' = [ret EXCEPT ![cur] = OkRet]
       ELSE /\ ret' = [ret EXCEPT ![cur] = ServerError]
            /\ UNCHANGED << clock, lastTick >>
    /\ pc' = "returned"
    /\ UNCHANGED << cliVars, syncer, retry, opHistory, server, log, otherVars >>

(***************************************************************************)
(* The streaming-server task (MediaStreamingServer::run in a spawned       *)
(* task): it serves until the task ends, by run() returning or by a panic  *)
(* (warp's run panics when it cannot bind the address).                    *)
(***************************************************************************)
ServerCompletes ==
    \E s \in Sessions :
        /\ server[s] = "running"
        /\ server' = [server EXCEPT ![s] = "completed"]
        /\ UNCHANGED << cliVars, playVars, clock, lastTick, log, otherVars >>

ServerPanics ==
    \E s \in Sessions :
        /\ server[s] = "running"
        /\ server' = [server EXCEPT ![s] = "panicked"]
        /\ UNCHANGED << cliVars, playVars, clock, lastTick, log, otherVars >>

(***************************************************************************)
(* The subtitle-sync clock: loop { interval.tick().await;                  *)
(* get_position_info().await; update_clipboard(..) }.                      *)
(***************************************************************************)
\* what one tick can come to: the position was read and the clipboard
\* updated; GetPositionInfo failed; its response did not parse; or
\* update_clipboard returned Err
TickOutcomes == {"ok", "action_err", "parse_err", "clip_err"}

\* a clock whose loop ends at the first failed tick
ClockAfterTickStopOnErr(o) == IF o = "ok" THEN "waiting" ELSE "stopped"

\* every arm of the match ends the iteration: the loop goes on to the next
\* interval.tick().await
ClockAfterTick(o) == "waiting"

\* interval.tick().await is over: GetPositionInfo goes to the device
ClockTick ==
    \E s \in Sessions :
        /\ clock[s] = "waiting"
        /\ clock' = [clock EXCEPT ![s] = "polling"]
        /\ UNCHANGED << cliVars, playVars, server, lastTick, log, otherVars >>

\* get_position_info().await yields, and the rest of the iteration runs
ClockPollReturns ==
    \E s \in Sessions, o \in TickOutcomes :
        /\ clock[s] = "polling"
        /\ clock' = [clock EXCEPT ![s] = ClockAfterTick(o)]
        /\ lastTick' = << s, o >>
        /\ UNCHANGED << cliVars, playVars, server, log, otherVars >>

Next ==
    \/ CliIterate
    \/ CliAfterPlay
    \/ PlayStart
    \/ RetrySend
    \/ RetryOpReturns
    \/ RetryWake
    \/ PlayAfterSetUri
    \/ PlayAfterPlay
    \/ PlayJoin
    \/ ServerCompletes
    \/ ServerPanics
    \/ ClockTick
    \/ ClockPollReturns

Spec == Init /\ [][Next]_vars

(***************************************************************************)
(* The play command with --interactive: start_interactive_control runs in  *)
(* a task of its own from before the loop.  Its event loop ends by itself  *)
(* when the q or Esc key is handled.                                       *)
(***************************************************************************)
InitInteractive == InitPlayCommand(TRUE)

\* KeyboardHandler::event_loop breaks: handle_key_event returned Ok(false)
InteractiveQuits ==
    /\ interactive = "running"
    /\ interactive' = "finished"
    /\ UNCHANGED << files, current_index, loop_playlist, playlist_mode, cliPc,
                    play_result, cmd_result, cur, sessFile,
                    playVars, taskVars, log, otherVars >>

NextInteractive ==
    \/ Next
    \/ InteractiveQuits

SpecInteractive == InitInteractive /\ [][NextInteractive]_vars

(***************************************************************************)
(* The play command of one file (no --playlist) with its --subtitle-sync   *)
(* argument kept: the loop body runs once, builds the server, decides on   *)
(* the syncer and calls dlna::play.                                        *)
(***************************************************************************)
InitSubtitleSync ==
    /\ interactive = "none"
    /\ PlaylistAtRest
    /\ ToggleAtRest
    /\ ComponentsAtRest
    /\ subtitle_sync \in BOOLEAN
    /\ subtitle_file = None
    /\ syncer_new = "none"
    /\ files = [i \in 1..NumFiles |-> i]
    /\ current_index = None
    /\ playlist_mode = FALSE
    /\ loop_playlist = playlist_mode
    /\ cliPc = "loop"
    /\ play_result = OkRet
    /\ cmd_result = None
    /\ cur = 0
    /\ sessFile = [s \in Sessions |-> 0]
    /\ SessionAtRest

NextSubtitleSync ==
    \/ CliIterateArgs
    \/ CliAfterPlay
    \/ PlayStart
    \/ RetrySend
    \/ RetryOpReturns
    \/ RetryWake
    \/ PlayAfterSetUri
    \/ PlayAfterPlay
    \/ PlayJoin
    \/ ServerCompletes
    \/ ServerPanics
    \/ ClockTick
    \/ ClockPollReturns

SpecSubtitleSync == InitSubtitleSync /\ [][NextSubtitleSync]_vars


(***************************************************************************)
(* A Playlist under any sequence of calls of next_file, previous_file,     *)
(* reset, set_loop and add_file.  It starts as Playlist::default() (no     *)
(* entry), as built by from_file (one entry) or by from_directory (the     *)
(* entries found, sorted), with the cursor at None and no looping.         *)
(***************************************************************************)
\* the paths an entry can be
FileIds == 1..NumFiles

\* the sequences scan_directory can leave: sorted, no path twice
SortedPlaylists ==
    {fs \in UNION {[1..n -> FileIds] : n \in 0..NumFiles} :
        \A i, j \in 1..Len(fs) : i < j => fs[i] < fs[j]}

\* PlayCommand::run is not running
CommandAtRest ==
    /\ playlist_mode = FALSE
    /\ cliPc = "loop"
    /\ play_result = OkRet
    /\ cmd_result = None
    /\ cur = 0
    /\ sessFile = [s \in Sessions |-> 0]
    /\ interactive = "none"

InitPlaylist ==
    /\ files \in SortedPlaylists
    /\ current_index = None
    /\ loop_playlist = FALSE
    /\ PlaylistAtRest
    /\ CommandAtRest
    /\ SessionAtRest
    /\ ToggleAtRest
    /\ UnitsAtRest

\* nothing runs: the play command, the playlist, the toggle and every other
\* component are as constructed
AllAtRest ==
    /\ files = << >>
    /\ current_index = None
    /\ loop_playlist = FALSE
    /\ PlaylistAtRest
    /\ CommandAtRest
    /\ SessionAtRest
    /\ ToggleAtRest
    /\ UnitsAtRest

\* the variables of the play command, the playlist and the toggle
baseVars == << cliVars, playVars, taskVars, log, plVars, tgVars >>

\* the record of a call of method op with argument arg returning r
Called(op, arg, r) ==
    [op |-> op, prev |-> call.op, arg |-> arg, files |-> files,
     current_index |-> current_index, loop_playlist |-> loop_playlist, ret |-> r]

next_file ==
    /\ current_index' = NextIndex(files, current_index, loop_playlist)
    /\ call' = Called("next_file", None, NextFile(files, current_index, loop_playlist))
    /\ streak' = IF streak = -1 \/ streak >= MaxStreak THEN -1 ELSE streak + 1
    /\ UNCHANGED << files, loop_playlist, cliRest, playVars, taskVars, log, tgVars, unitVars >>

previous_file ==
    /\ current_index' = PreviousIndex(files, current_index, loop_playlist)
    /\ call' = Called("previous_file", None,
                      PreviousFile(files, current_index, loop_playlist))
    /\ streak' = -1
    /\ UNCHANGED << files, loop_playlist, cliRest, playVars, taskVars, log, tgVars, unitVars >>

\* a reset that puts the cursor on the first entry
reset_to_first ==
    /\ current_index' = Some(0)
    /\ call' = Called("reset", None, None)
    /\ streak' = 0
    /\ UNCHANGED << files, loop_playlist, cliRest, playVars, taskVars, log, tgVars, unitVars >>

reset ==
    /\ current_index' = None
    /\ call' = Called("reset", None, None)
    /\ streak' = 0
    /\ UNCHANGED << files, loop_playlist, cliRest, playVars, taskVars, log, tgVars, unitVars >>

set_loop ==
    \E b \in BOOLEAN :
        /\ loop_playlist' = b
        /\ call' = Called("set_loop", Some(b), None)
        /\ streak' = IF streak = 0 THEN 0 ELSE -1
        /\ UNCHANGED << files, current_index, cliRest, playVars, taskVars, log, tgVars, unitVars >>

add_file ==
    \E f \in FileIds :
        /\ Len(files) < MaxPlaylistLen
        /\ files' = Append(files, f)
        /\ call' = Called("add_file", Some(f), None)
        /\ streak' = IF streak = 0 THEN 0 ELSE -1
        /\ UNCHANGED << current_index, loop_playlist, cliRest, playVars, taskVars,
                        log, tgVars, unitVars >>

NextPlaylist ==
    \/ next_file
    \/ previous_file
    \/ reset
    \/ set_loop
    \/ add_file

SpecPlaylist == InitPlaylist /\ [][NextPlaylist]_vars

(***************************************************************************)
(* dlna::toggle_play_pause, called again and again against a device that   *)
(* can report any transport state and fail any action.                     *)
(*   tpc  "idle" (never called), "read" (awaiting get_transport_info),     *)
(*        "command" (awaiting pause() or resume(), a retry_with_backoff    *)
(*        whose state is retry), "returned"                                *)
(***************************************************************************)
\* what CurrentTransportState can be: the states of AVTransport, a string
\* that is none of them, and "" (TransportInfo::from_map when the field is
\* absent)
TransportStates ==
    {"PLAYING", "PAUSED_PLAYBACK", "STOPPED", "TRANSITIONING", "NO_MEDIA_PRESENT",
     "playing", ""}

\* a match whose default arm pauses
ToggleCommandPauseByDefault(state) ==
    CASE state = "PLAYING" -> "pause"
      [] state \in {"PAUSED_PLAYBACK", "STOPPED"} -> "resume"
      [] OTHER -> "pause"

\* match transport_info.transport_state.as_str() { .. }: the function called
ToggleCommand(state) ==
    CASE state = "PLAYING" -> "pause"
      [] state \in {"PAUSED_PLAYBACK", "STOPPED"} -> "resume"
      [] OTHER -> "resume"

\* the action pause() and resume() send: DLNA_ACTION_PAUSE (named here by the
\* operation name pause() gives its retry, "Pause") and DLNA_ACTION_PLAY
CommandAction(c) == IF c = "pause" THEN "Pause" ELSE "Play"

\* .map_err(|err| Error::DlnaActionFailed { action, source: err })
ActionError(e) == ErrRet("DlnaActionFailed", e, << >>)

InitToggle ==
    /\ files = << >>
    /\ current_index = None
    /\ loop_playlist = FALSE
    /\ PlaylistAtRest
    /\ CommandAtRest
    /\ SessionAtRest
    /\ ToggleAtRest
    /\ UnitsAtRest

\* toggle_play_pause is called (a key press): render.get_transport_info()
\* sends GetTransportInfo
ToggleCall ==
    /\ tpc \in {"idle", "returned"}
    /\ tpc' = "read"
    /\ transport_state' = None
    /\ commands' = << >>
    /\ toggle_result' = NoRet
    /\ retry' = RetryStart
    /\ opHistory' = << >>
    /\ log' = << << cur, "GetTransportInfo", "send" >> >>
    /\ UNCHANGED << cliVars, pc, syncer, ret, taskVars, plVars, unitVars >>

\* a toggle that takes a failed read for an unknown state and resumes
ToggleReadReturnsResumeOnErr ==
    /\ tpc = "read"
    /\ \/ \E e \in ErrVals :
            /\ log' = Append(log, << cur, "GetTransportInfo", "err" >>)
            /\ commands' = Append(commands, "resume")
            /\ tpc' = "command"
            /\ UNCHANGED << transport_state, toggle_result >>
       \/ \E state \in TransportStates :
            /\ log' = Append(log, << cur, "GetTransportInfo", "ok" >>)
            /\ transport_state' = Some(state)
            /\ commands' = Append(commands, ToggleCommand(state))
            /\ tpc' = "command"
            /\ UNCHANGED toggle_result
    /\ UNCHANGED << cliVars, playVars, taskVars, plVars, unitVars >>

\* get_transport_info().await? : on Err toggle_play_pause returns it; on Ok
\* the state is matched and pause() or resume() is called
ToggleReadReturns ==
    /\ tpc = "read"
    /\ \/ \E e \in ErrVals :
            /\ log' = Append(log, << cur, "GetTransportInfo", "err" >>)
            /\ toggle_result' = ActionError(e)
            /\ tpc' = "returned"
            /\ UNCHANGED << transport_state, commands >>
       \/ \E state \in TransportStates :
            /\ log' = Append(log, << cur, "GetTransportInfo", "ok" >>)
            /\ transport_state' = Some(state)
            /\ commands' = Append(commands, ToggleCommand(state))
            /\ tpc' = "command"
            /\ UNCHANGED toggle_result
    /\ UNCHANGED << cliVars, playVars, taskVars, plVars, unitVars >>

\* pause() / resume(): retry_with_backoff invokes operation()
ToggleSend ==
    /\ tpc = "command"
    /\ retry.pc = "call"
    /\ retry' = RetryInvoke(retry)
    /\ log' = Append(log, << cur, CommandAction(commands[Len(commands)]), "send" >>)
    /\ UNCHANGED << cliVars, pc, syncer, opHistory, ret, taskVars, plVars, unitVars, tgVars >>

\* pause() / resume(): operation().await yields Ok or Err(e)
ToggleOpReturns ==
    /\ tpc = "command"
    /\ retry.pc = "inflight"
    /\ \E o \in OpOutcomes :
         /\ retry' = IF o = "ok" THEN RetryOnOk(retry) ELSE RetryOnErr(retry, o)
         /\ opHistory' = Append(opHistory, o)
         /\ log' = Append(log, << cur, CommandAction(commands[Len(commands)]),
                                  IF o = "ok" THEN "ok" ELSE "err" >>)
    /\ UNCHANGED << cliVars, pc, syncer, ret, taskVars, plVars, unitVars, tgVars >>

\* pause() / resume(): sleep(delay).await is over
ToggleWake ==
    /\ tpc = "command"
    /\ retry.pc = "sleep"
    /\ retry' = RetryAfterSleep(retry)
    /\ UNCHANGED << cliVars, pc, syncer, opHistory, ret, taskVars, log, plVars, unitVars, tgVars >>

\* pause() / resume() returns, and toggle_play_pause returns that result
ToggleCommandReturns ==
    /\ tpc = "command"
    /\ retry.pc = "returned"
    /\ toggle_result' = IF retry.result[1].ok THEN OkRet
                        ELSE PlaybackError(retry.result[1].val)
    /\ tpc' = "returned"
    /\ UNCHANGED << cliVars, playVars, taskVars, log, plVars, unitVars, transport_state, commands >>

NextToggle ==
    \/ ToggleCall
    \/ ToggleReadReturns
    \/ ToggleSend
    \/ ToggleOpReturns
    \/ ToggleWake
    \/ ToggleCommandReturns

SpecToggle == InitToggle /\ [][NextToggle]_vars

(***************************************************************************)
(* The operations on a render: Render::get_position_info and               *)
(* Render::get_transport_info (queries), dlna::pause and dlna::resume      *)
(* (commands), called one at a time against a device that can fail any     *)
(* action and answer a query with any response.                            *)
(***************************************************************************)
RenderOps == {"get_position_info", "get_transport_info", "pause", "resume"}

\* the action an operation sends
OpAction(op) ==
    CASE op = "get_position_info" -> "GetPositionInfo"
      [] op = "get_transport_info" -> "GetTransportInfo"
      [] op = "pause" -> "Pause"
      [] op = "resume" -> "Play"

\* operations that wrap every action in the retry policy
RetriedAlways(op) == TRUE

\* whether the operation sends its action through retry_with_backoff
Retried(op) == op \in {"pause", "resume"}

\* Error::DlnaActionFailed { action, source }
ActionFailed(action, e) ==
    [kind |-> "DlnaActionFailed", action |-> action, source |-> e]

\* Error::DlnaResponseParseError { action, error }
ResponseParseError(action, error) ==
    [kind |-> "DlnaResponseParseError", action |-> action, error |-> error]

\* Error::DlnaPlaybackFailed { source, context } of pause and resume
CommandFailed(e) == [kind |-> "DlnaPlaybackFailed", source |-> e]

\* Ok(value)
OkValue(v) == [kind |-> "Ok", value |-> v]

(***************************************************************************)
(* A response is the map of the fields the device sent: response[f] is     *)
(* Some(text) for a field that is present and None for an absent one.      *)
(***************************************************************************)
NumericFields == {"Track", "RelCount", "AbsCount"}
TextFields == {"TrackDuration", "TrackMetaData", "TrackURI", "RelTime", "AbsTime"}
PositionFields == NumericFields \cup TextFields
TransportFields == {"CurrentTransportState", "CurrentTransportStatus", "CurrentSpeed"}

\* what a numeric field can hold: a number, a negative number, no number
NumericTexts == {"7", "-5", "abc"}
\* what a text field can hold
TextTexts == {"0:01:02"}

\* str::parse::<i32>: Some(n), or None when the text is no i32
ParseI32(text) ==
    CASE text = "7" -> Some(7)
      [] text = "0" -> Some(0)
      [] text = "-1" -> Some(-1)
      [] text = "-5" -> Some(-5)
      [] OTHER -> None

\* str::parse::<u32>: as ParseI32, and no negative number is a u32
ParseU32(text) ==
    LET n == ParseI32(text)
    IN IF n # None /\ n[1] >= 0 THEN n ELSE None

\* map.get(f).unwrap_or(&default)
GetOr(map, f, default) == IF map[f] = None THEN default ELSE map[f][1]

PositionResponses ==
    {m \in [PositionFields -> {None} \cup {Some(t) : t \in NumericTexts \cup TextTexts}] :
        /\ \A f \in NumericFields : m[f] = None \/ m[f][1] \in NumericTexts
        /\ \A f \in TextFields : m[f] = None \/ m[f][1] \in TextTexts}

TransportResponses ==
    {m \in [TransportFields -> {None} \cup {Some(t) : t \in {"PLAYING", "OK", "1"}}] :
        /\ m["CurrentTransportState"] \in {None, Some("PLAYING")}
        /\ m["CurrentTransportStatus"] \in {None, Some("OK")}
        /\ m["CurrentSpeed"] \in {None, Some("1")}}

\* a from_map that takes the default for a counter it cannot parse
PositionInfoFromMapLenient(map) ==
    LET track == ParseU32(GetOr(map, "Track", "0"))
        rel_count == ParseI32(GetOr(map, "RelCount", "-1"))
        abs_count == ParseI32(GetOr(map, "AbsCount", "-1"))
    IN IF track = None THEN [ok |-> FALSE, error |-> << "Failed to parse", "Track" >>]
       ELSE [ok |-> TRUE,
             value |-> [track |-> track[1],
                        track_duration |-> GetOr(map, "TrackDuration", ""),
                        track_meta_data |-> GetOr(map, "TrackMetaData", ""),
                        track_uri |-> GetOr(map, "TrackURI", ""),
                        rel_time |-> GetOr(map, "RelTime", ""),
                        abs_time |-> GetOr(map, "AbsTime", ""),
                        rel_count |-> IF rel_count = None THEN -1 ELSE rel_count[1],
                        abs_count |-> IF abs_count = None THEN -1 ELSE abs_count[1]]]

\* PositionInfo::from_map: the fields are built in the order of the struct
\* literal, and the first `?` that meets an Err returns it
PositionInfoFromMap(map) ==
    LET track == ParseU32(GetOr(map, "Track", "0"))
        rel_count == ParseI32(GetOr(map, "RelCount", "-1"))
        abs_count == ParseI32(GetOr(map, "AbsCount", "-1"))
    IN IF track = None THEN [ok |-> FALSE, error |-> << "Failed to parse", "Track" >>]
       ELSE IF rel_count = None
            THEN [ok |-> FALSE, error |-> << "Failed to parse", "RelCount" >>]
       ELSE IF abs_count = None
            THEN [ok |-> FALSE, error |-> << "Failed to parse", "AbsCount" >>]
       ELSE [ok |-> TRUE,
             value |-> [track |-> track[1],
                        track_duration |-> GetOr(map, "TrackDuration", ""),
                        track_meta_data |-> GetOr(map, "TrackMetaData", ""),
                        track_uri |-> GetOr(map, "TrackURI", ""),
                        rel_time |-> GetOr(map, "RelTime", ""),
                        abs_time |-> GetOr(map, "AbsTime", ""),
                        rel_count |-> rel_count[1],
                        abs_count |-> abs_count[1]]]

\* TransportInfo::from_map: every field is text, so it always returns Ok
TransportInfoFromMap(map) ==
    [ok |-> TRUE,
     value |-> [transport_state |-> GetOr(map, "CurrentTransportState", ""),
                transport_status |-> GetOr(map, "CurrentTransportStatus", ""),
                speed |-> GetOr(map, "CurrentSpeed", "")]]

\* the operation is called: a query sends its action at once, a command
\* calls retry_with_backoff
RenderCall ==
    /\ rpc \in {"idle", "returned"}
    /\ \E op \in RenderOps :
         /\ rop' = op
         /\ IF Retried(op)
            THEN rpc' = "command" /\ log' = << >>
            ELSE /\ rpc' = "query"
                 /\ log' = << << cur, OpAction(op), "send" >> >>
    /\ response' = None
    /\ rret' = NoRet
    /\ retry' = RetryStart
    /\ opHistory' = << >>
    /\ UNCHANGED << cliVars, pc, syncer, ret, taskVars, plVars, tgVars, unitsButRender >>

\* service.action(..).await of a query yields Err(e), returned as
\* DlnaActionFailed, or Ok(response), which from_map parses
RenderQueryReturns ==
    /\ rpc = "query"
    /\ \/ \E e \in ErrVals :
            /\ log' = Append(log, << cur, OpAction(rop), "err" >>)
            /\ rret' = ActionFailed(OpAction(rop), e)
            /\ UNCHANGED response
       \/ \E m \in (IF rop = "get_position_info" THEN PositionResponses
                    ELSE TransportResponses) :
            LET parsed == IF rop = "get_position_info" THEN PositionInfoFromMap(m)
                          ELSE TransportInfoFromMap(m)
            IN /\ log' = Append(log, << cur, OpAction(rop), "ok" >>)
               /\ response' = Some(m)
               /\ rret' = IF parsed.ok THEN OkValue(parsed.value)
                          ELSE ResponseParseError(OpAction(rop), parsed.error)
    /\ rpc' = "returned"
    /\ UNCHANGED << cliVars, playVars, taskVars, plVars, tgVars, rop, unitsButRender >>

\* retry_with_backoff of a command: operation() is invoked
RenderSend ==
    /\ rpc = "command"
    /\ retry.pc = "call"
    /\ retry' = RetryInvoke(retry)
    /\ log' = Append(log, << cur, OpAction(rop), "send" >>)
    /\ UNCHANGED << cliVars, pc, syncer, opHistory, ret, taskVars, plVars, tgVars,
                    rdVars, unitsButRender >>

\* retry_with_backoff of a command: operation().await yields Ok or Err(e)
RenderOpReturns ==
    /\ rpc = "command"
    /\ retry.pc = "inflight"
    /\ \E o \in OpOutcomes :
         /\ retry' = IF o = "ok" THEN RetryOnOk(retry) ELSE RetryOnErr(retry, o)
         /\ opHistory' = Append(opHistory, o)
         /\ log' = Append(log, << cur, OpAction(rop), IF o = "ok" THEN "ok" ELSE "err" >>)
    /\ UNCHANGED << cliVars, pc, syncer, ret, taskVars, plVars, tgVars,
                    rdVars, unitsButRender >>

\* retry_with_backoff of a command: sleep(delay).await is over
RenderWake ==
    /\ rpc = "command"
    /\ retry.pc = "sleep"
    /\ retry' = RetryAfterSleep(retry)
    /\ UNCHANGED << cliVars, pc, syncer, opHistory, ret, taskVars, log, plVars, tgVars,
                    rdVars, unitsButRender >>

\* retry_with_backoff(..).await.map_err(..)? of a command, then Ok(())
RenderCommandReturns ==
    /\ rpc = "command"
    /\ retry.pc = "returned"
    /\ rret' = IF retry.result[1].ok THEN OkValue(<< >>)
               ELSE CommandFailed(retry.result[1].val)
    /\ rpc' = "returned"
    /\ UNCHANGED << cliVars, playVars, taskVars, log, plVars, tgVars, rop, response, unitsButRender >>

NextRender ==
    \/ RenderCall
    \/ RenderQueryReturns
    \/ RenderSend
    \/ RenderOpReturns
    \/ RenderWake
    \/ RenderCommandReturns

SpecRender == AllAtRest /\ [][NextRender]_vars

(***************************************************************************)
(* devices::Render: discovery (Render::discover) and the selection of a    *)
(* render from a RenderSpec (Render::new).  A call is made with any        *)
(* selector; the discovery stream yields any items, one at a time.         *)
(***************************************************************************)
\* cap on the number of items the discovery stream yields in one call
MaxResponses == 3

\* texts are sequences of characters
Urls == { << "h", "1" >>, << "h", "2" >> }
\* a text that does not parse as a Uri
BadUrl == << ":" >>
FriendlyNames == { << "t", "v" >>, << "h", "i" >> }
\* device.device_type() and service.service_type() as texts
DeviceType == << "M", "R" >>
ServiceType == << "A", "V" >>
Queries == { << "t", "v" >>, << "h" >>, << "1" >>, << "@" >>, << >>, << "z" >>,
             << "v", " ", "@" >>, << "]", "[" >> }

\* rupnp::Device as far as discovery reads it: its url, its friendly name and
\* whether find_service(AV_TRANSPORT) finds the service
Devices == [url : Urls, friendly_name : FriendlyNames, av : BOOLEAN]

\* an item of the discovery stream: Result<rupnp::Device, rupnp::Error>
StreamItems == [ok : {TRUE}, device : Devices] \cup [ok : {FALSE}, err : ErrVals]

\* RenderSpec
Location(device_url) == [kind |-> "Location", arg |-> device_url]
Query(device_query) == [kind |-> "Query", arg |-> device_query]
First == [kind |-> "First", arg |-> << >>]
RenderSpecs ==
    {Location(u) : u \in Urls \cup {BadUrl}} \cup {Query(q) : q \in Queries} \cup {First}

\* url.parse::<Uri>()
UriParse(url) == IF url \in Urls THEN Some(url) ELSE None

\* Error::DeviceDiscoveryFailed, from ssdp_client::Error
DeviceDiscoveryFailed(e) == [kind |-> "DeviceDiscoveryFailed", source |-> e]
\* Error::DeviceUrlParseError { url, reason }
DeviceUrlParseError(url) == [kind |-> "DeviceUrlParseError", url |-> url]
\* Error::DeviceCreationError { url, source }
DeviceCreationError(url, e) == [kind |-> "DeviceCreationError", url |-> url, source |-> e]
\* Error::RenderNotFound { spec, context }
RenderNotFound(spec) == [kind |-> "RenderNotFound", spec |-> spec]

\* a from_device that makes a render of a device without the service
from_device_any(d) == Some(d)

\* Render::from_device: Some(render) when the device has AVTransport
from_device(d) == IF d.av THEN Some(d) ELSE None

\* a discovery loop that pushes every render, seen before or not
DiscoverItemNoDedup(rs, urls, item) ==
    IF item.ok /\ from_device(item.device) # None
    THEN [renders |-> Append(rs, from_device(item.device)[1]),
          discovered_urls |-> urls \cup {item.device.url}]
    ELSE [renders |-> rs, discovered_urls |-> urls]

\* one iteration of discover_with_config's loop on item: the new renders and
\* discovered_urls
DiscoverItem(rs, urls, item) ==
    IF ~item.ok THEN [renders |-> rs, discovered_urls |-> urls]
    ELSE IF item.device.url \in urls THEN [renders |-> rs, discovered_urls |-> urls]
    ELSE IF from_device(item.device) # None
         THEN [renders |-> Append(rs, from_device(item.device)[1]),
               discovered_urls |-> urls \cup {item.device.url}]
         ELSE [renders |-> rs, discovered_urls |-> urls]

\* format_device_with_service_description:
\* "[{device_type}][{service_type}] {friendly_name} @ {url}"
FormatDevice(device_type, service_type, friendly_name, url) ==
    << "[" >> \o device_type \o << "]", "[" >> \o service_type \o << "]", " " >>
        \o friendly_name \o << " ", "@", " " >> \o url

\* <Render as Display>::to_string
RenderToString(r) == FormatDevice(DeviceType, ServiceType, r.friendly_name, r.url)

\* a test for the text at the start only (starts_with)
ContainsAtStart(s, q) == Len(q) <= Len(s) /\ SubSeq(s, 1, Len(q)) = q

\* str::contains
Contains(s, q) == \E i \in 0..(Len(s) - Len(q)) : SubSeq(s, i + 1, i + Len(q)) = q

\* select_by_query's loop over the discovered renders
RECURSIVE select_by_query(_, _)
select_by_query(rs, query) ==
    IF rs = << >> THEN None
    ELSE IF Contains(RenderToString(Head(rs)), query) THEN Some(Head(rs))
    ELSE select_by_query(Tail(rs), query)

\* Render::new turning a construction failure into RenderNotFound
SelectByUrlAllNotFound(url, result, d) ==
    IF ~result.ok THEN RenderNotFound(Location(url))
    ELSE IF from_device(d) = None THEN RenderNotFound(Location(url))
    ELSE OkValue(from_device(d)[1])

\* Render::new on Location(url) once retry_with_backoff has returned result
\* (and, on Ok, the device d)
SelectByUrl(url, result, d) ==
    IF ~result.ok THEN DeviceCreationError(url, result.val)
    ELSE IF from_device(d) = None THEN RenderNotFound(Location(url))
    ELSE OkValue(from_device(d)[1])

\* what the call returns once discover has returned Ok(rs): discover's own
\* result, or Render::new's on Query and First
AfterDiscover(spec, rs) ==
    IF spec = None THEN OkValue(rs)
    ELSE IF spec[1].kind = "Query"
         THEN IF select_by_query(rs, spec[1].arg) = None THEN RenderNotFound(spec[1])
              ELSE OkValue(select_by_query(rs, spec[1].arg)[1])
    ELSE IF rs = << >> THEN RenderNotFound(spec[1])
    ELSE OkValue(rs[1])

\* the frame of the devices' actions
devFrame == << cliVars, pc, syncer, ret, taskVars, log, plVars, tgVars, unitsButDevices >>

\* Render::discover(..) is called directly, or Render::new(render_spec) is:
\* Location parses the URL and starts retry_with_backoff, Query and First
\* start the discovery
DevicesCall ==
    /\ dpc \in {"idle", "returned"}
    /\ \E spec \in {None} \cup {Some(s) : s \in RenderSpecs} :
         /\ render_spec' = spec
         /\ IF spec # None /\ spec[1].kind = "Location"
            THEN IF UriParse(spec[1].arg) = None
                 THEN dpc' = "returned" /\ dret' = DeviceUrlParseError(spec[1].arg)
                 ELSE dpc' = "creating" /\ dret' = NoRet
            ELSE dpc' = "searching" /\ dret' = NoRet
    /\ responses' = << >>
    /\ renders' = << >>
    /\ discovered_urls' = {}
    /\ device' = None
    /\ retry' = RetryStart
    /\ opHistory' = << >>
    /\ UNCHANGED devFrame

\* upnp_discover_with_config(..).await?: the SSDP search fails, or gives the
\* stream of devices
DiscoverSearchReturns ==
    /\ dpc = "searching"
    /\ \/ \E e \in ErrVals : dpc' = "returned" /\ dret' = DeviceDiscoveryFailed(e)
       \/ dpc' = "discovering" /\ UNCHANGED dret
    /\ UNCHANGED << devFrame, retry, opHistory, render_spec, responses, renders,
                    discovered_urls, device >>

\* devices.next().await yields Some(item): one iteration of the loop
DiscoverNext ==
    /\ dpc = "discovering"
    /\ Len(responses) < MaxResponses
    /\ \E item \in StreamItems :
         /\ responses' = Append(responses, item)
         /\ renders' = DiscoverItem(renders, discovered_urls, item).renders
         /\ discovered_urls' = DiscoverItem(renders, discovered_urls, item).discovered_urls
    /\ UNCHANGED << devFrame, retry, opHistory, dpc, render_spec, device, dret >>

\* devices.next().await yields None: discover returns Ok(renders) and the
\* caller selects from it
DiscoverEnd ==
    /\ dpc = "discovering"
    /\ dret' = AfterDiscover(render_spec, renders)
    /\ dpc' = "returned"
    /\ UNCHANGED << devFrame, retry, opHistory, render_spec, responses, renders,
                    discovered_urls, device >>

\* retry_with_backoff of Device::from_url: operation() is invoked
DeviceCreateSend ==
    /\ dpc = "creating"
    /\ retry.pc = "call"
    /\ retry' = RetryInvoke(retry)
    /\ UNCHANGED << devFrame, opHistory, dvVars >>

\* Device::from_url(uri).await yields Err(e) or Ok(device)
DeviceCreateReturns ==
    /\ dpc = "creating"
    /\ retry.pc = "inflight"
    /\ \/ \E e \in ErrVals :
            /\ retry' = RetryOnErr(retry, e)
            /\ opHistory' = Append(opHistory, e)
            /\ UNCHANGED device
       \/ \E d \in Devices :
            /\ d.url = render_spec[1].arg
            /\ retry' = RetryOnOk(retry)
            /\ opHistory' = Append(opHistory, "ok")
            /\ device' = Some(d)
    /\ UNCHANGED << devFrame, dpc, render_spec, responses, renders, discovered_urls, dret >>

\* retry_with_backoff of Device::from_url: sleep(delay).await is over
DeviceCreateWake ==
    /\ dpc = "creating"
    /\ retry.pc = "sleep"
    /\ retry' = RetryAfterSleep(retry)
    /\ UNCHANGED << devFrame, opHistory, dvVars >>

\* retry_with_backoff(..).await.map_err(..)?, from_device and ok_or
SelectByUrlReturns ==
    /\ dpc = "creating"
    /\ retry.pc = "returned"
    /\ dret' = SelectByUrl(render_spec[1].arg, retry.result[1],
                           IF device = None THEN None ELSE device[1])
    /\ dpc' = "returned"
    /\ UNCHANGED << devFrame, retry, opHistory, render_spec, responses, renders,
                    discovered_urls, device >>

NextDevices ==
    \/ DevicesCall
    \/ DiscoverSearchReturns
    \/ DiscoverNext
    \/ DiscoverEnd
    \/ DeviceCreateSend
    \/ DeviceCreateReturns
    \/ DeviceCreateWake
    \/ SelectByUrlReturns

SpecDevices == AllAtRest /\ [][NextDevices]_vars

(***************************************************************************)
(* media::MediaStreamingServer: new(video_path, subtitle_path, host_ip,    *)
(* host_port), run() and the requests the running server answers.          *)
(***************************************************************************)
\* the paths of the model and the URL segment sanitize_filename_for_url
\* (slugify with separator ".") makes of each: lower case, so that two of
\* them collide
Paths == {"A.mp4", "a.mp4", "a.srt"}
Slug(path) == IF path = "A.mp4" THEN "a.mp4" ELSE path

\* DEFAULT_SUBTITLE_FILENAME
DummySubtitle == "dummy.srt"

HostIps == {"127.0.0.1", "localhost"}
HostPorts == {9000, 70000}

\* format!("{host_ip}:{host_port}").parse::<SocketAddr>(): an IP address and
\* a port that fits 16 bits
ParseSocketAddr(host_ip, host_port) ==
    IF host_ip = "127.0.0.1" /\ host_port < 65536
    THEN Some(<< host_ip, host_port >>) ELSE None

\* Error::NetworkAddressParseError { address, reason }
NetworkAddressParseError(host_ip, host_port) ==
    [kind |-> "NetworkAddressParseError", address |-> << host_ip, host_port >>]
\* Error::MediaFileNotFound { path, context }
MediaFileNotFound(path) == [kind |-> "MediaFileNotFound", path |-> path]

\* MediaFile { file_path, host_uri, file_uri }
MediaFile(path, addr) == [file_path |-> path, host_uri |-> addr, file_uri |-> Slug(path)]

\* MediaStreamingServer::new in a file system where the paths of exist exist
MediaStreamingServerNew(exist, video_path, subtitle_path, host_ip, host_port) ==
    LET addr == ParseSocketAddr(host_ip, host_port)
    IN IF addr = None THEN NetworkAddressParseError(host_ip, host_port)
       ELSE IF subtitle_path # None /\ subtitle_path[1] \notin exist
            THEN MediaFileNotFound(subtitle_path[1])
       ELSE OkValue([video_file |-> MediaFile(video_path, addr[1]),
                     subtitle_file |-> IF subtitle_path = None THEN None
                                       ELSE Some(MediaFile(subtitle_path[1], addr[1])),
                     server_addr |-> addr[1]])

\* subtitle_uri(): format!("{}/{}", host_uri, file_uri) of the subtitle file
subtitle_uri(srv) ==
    IF srv.subtitle_file = None THEN None
    ELSE Some(<< srv.subtitle_file[1].host_uri, srv.subtitle_file[1].file_uri >>)

\* serve_full_file: the contents of the file, or not_found when it cannot be
\* read
serve_full_file(exist, path) ==
    IF path \in exist THEN [status |-> 200, file |-> path]
    ELSE [status |-> 404, file |-> ""]

\* the routes of get_routes applied to a request: the video route, GET only;
\* anything else is rejected
Routes(srv, exist, req) ==
    IF req.segment = srv.video_file.file_uri
    THEN IF req.method = "GET" THEN serve_full_file(exist, srv.video_file.file_path)
         ELSE [status |-> 405, file |-> ""]
    ELSE [status |-> 404, file |-> ""]

Segments == {Slug(p) : p \in Paths} \cup {DummySubtitle, "other"}
Requests == [method : {"GET", "POST"}, segment : Segments]

\* MediaStreamingServer::new is called, in any file system, with any
\* arguments
StreamingNew ==
    /\ \E exist \in SUBSET Paths, video_path \in Paths,
          subtitle_path \in {None} \cup {Some(p) : p \in Paths},
          host_ip \in HostIps, host_port \in HostPorts :
         /\ existing' = exist
         /\ new_args' = Some([video_path |-> video_path, subtitle_path |-> subtitle_path,
                              host_ip |-> host_ip, host_port |-> host_port])
         /\ new_ret' = MediaStreamingServerNew(exist, video_path, subtitle_path,
                                               host_ip, host_port)
    /\ spc' = "constructed"
    /\ request' = None
    /\ reply' = None
    /\ UNCHANGED << baseVars, unitsButStreaming >>

\* run(): warp::serve(routes).run(server_addr) starts to serve
StreamingRun ==
    /\ spc = "constructed"
    /\ new_ret.kind = "Ok"
    /\ spc' = "running"
    /\ UNCHANGED << baseVars, unitsButStreaming, existing, new_args, new_ret, request, reply >>

\* the running server answers a request
StreamingRequest ==
    /\ spc = "running"
    /\ \E req \in Requests :
         /\ request' = Some(req)
         /\ reply' = Some(Routes(new_ret.value, existing, req))
    /\ UNCHANGED << baseVars, unitsButStreaming, spc, existing, new_args, new_ret >>

NextStreaming ==
    \/ StreamingNew
    \/ StreamingRun
    \/ StreamingRequest

SpecStreaming == AllAtRest /\ [][NextStreaming]_vars

(***************************************************************************)
(* media::SubtitleSyncer: new(subtitle_path) parses the file into entries  *)
(* and get_current_subtitle(current_time_ms) looks a position up.          *)
(***************************************************************************)
\* cap on the number of events of a subtitle file
MaxEntries == 2

\* the times (ms, as i64) and texts an event of the file can have
EventTimes == {-1, 0, 1, 2}
EventTexts == {"<i>a</i>", "b"}
SubtitleEvents == [start : EventTimes, end : EventTimes, text : EventTexts]
\* the positions looked up
Positions == 0..3

\* clean_subtitle_text: the tags <i> and </i> removed, then trim()
clean_subtitle_text(text) == IF text = "<i>a</i>" THEN "a" ELSE text

\* parse_subtitle_file's SubtitleEntry of an event: times below 0 become 0
SubtitleEntry(event) ==
    [start_time |-> IF event.start > 0 THEN event.start ELSE 0,
     end_time |-> IF event.end > 0 THEN event.end ELSE 0,
     text |-> clean_subtitle_text(event.text)]

\* parse_subtitle_file: one entry pushed per event, in the events' order
parse_subtitle_file(evs) == [i \in 1..Len(evs) |-> SubtitleEntry(evs[i])]

\* a test that leaves the end of the interval out
CoversBeforeEnd(entry, t) == t >= entry.start_time /\ t < entry.end_time

\* get_current_subtitle's test of one entry
Covers(entry, t) == t >= entry.start_time /\ t <= entry.end_time

\* get_current_subtitle: the loop over the entries
RECURSIVE get_current_subtitle(_, _)
get_current_subtitle(es, t) ==
    IF es = << >> THEN None
    ELSE IF Covers(Head(es), t) THEN Some(Head(es).text)
    ELSE get_current_subtitle(Tail(es), t)

\* a constructor that needs the clipboard
SyncerNewResultStrict(parse_ok, clip_ok) ==
    IF parse_ok /\ clip_ok THEN "ready" ELSE "failed"

\* SubtitleSyncer::new: Err only from parse_subtitle_file(..)?; the outcome
\* of Clipboard::new() decides the clipboard field alone
SyncerNewResult(parse_ok, clip_ok) ==
    IF parse_ok THEN "ready" ELSE "failed"

\* SubtitleSyncer::new: the match on Clipboard::new()
ClipboardField(clip_ok) == IF clip_ok THEN Some("clipboard") ELSE None

\* SubtitleSyncer::new.  The file parses or not; when it does Clipboard::new
\* is called and succeeds or not
SyncerNew ==
    /\ sbpc = "idle"
    /\ \E parse_ok \in BOOLEAN, clip_ok \in BOOLEAN :
         /\ sbpc' = SyncerNewResult(parse_ok, clip_ok)
         /\ IF parse_ok
            THEN /\ \E n \in 0..MaxEntries :
                      \E evs \in [1..n -> SubtitleEvents] :
                         /\ events' = evs
                         /\ entries' = parse_subtitle_file(evs)
                 /\ clip_init' = IF clip_ok THEN "ok" ELSE "err"
                 /\ clipboard' = ClipboardField(clip_ok)
            ELSE UNCHANGED << events, entries, clip_init, clipboard >>
    /\ current_time_ms' = 0
    /\ subtitle' = None
    /\ UNCHANGED << baseVars, unitsButSubtitle, push >>

\* get_current_subtitle(current_time_ms) is called and returns
SyncerLookup ==
    /\ sbpc \in {"ready", "returned"}
    /\ \E t \in Positions :
         /\ current_time_ms' = t
         /\ subtitle' = get_current_subtitle(entries, t)
    /\ sbpc' = "returned"
    /\ UNCHANGED << baseVars, unitsButSubtitle, events, entries, clip_init, clipboard, push >>

\* copy_current_subtitle_to_clipboard: set_text is called only when a
\* subtitle covers the time and the clipboard field is Some
CopyOutcome(text, board, set_ok) ==
    IF text # None /\ board # None
    THEN IF set_ok THEN "written" ELSE "failed"
    ELSE "skipped"

\* update_clipboard's result: Ok(()) when the text was copied
UpdateClipboardResult(outcome) ==
    IF outcome = "written" THEN "Ok"
    ELSE "No subtitle found or clipboard update failed"

\* update_clipboard(current_time_ms), as the clock calls it at a tick, is
\* called and returns; set_text, when called, succeeds or not
SyncerUpdateClipboard ==
    /\ sbpc \in {"ready", "returned"}
    /\ \E t \in Positions :
         /\ current_time_ms' = t
         /\ subtitle' = get_current_subtitle(entries, t)
         /\ \E set_ok \in BOOLEAN :
              push' = CopyOutcome(get_current_subtitle(entries, t), clipboard, set_ok)
    /\ sbpc' = "returned"
    /\ UNCHANGED << baseVars, unitsButSubtitle, events, entries, clip_init, clipboard >>

NextSubtitle ==
    \/ SyncerNew
    \/ SyncerLookup

SpecSubtitle == AllAtRest /\ [][NextSubtitle]_vars

\* a syncer as the subtitle-sync clock uses it: built once, then asked to
\* push at every tick
NextClipboard ==
    \/ SyncerNew
    \/ SyncerUpdateClipboard

SpecClipboard == AllAtRest /\ [][NextClipboard]_vars

(***************************************************************************)
(* tui::TuiApp::run: the status update task it spawns and its event loop,  *)
(* which share the AppState behind a tokio Mutex.  lock().await returns    *)
(* once the lock is free; try_lock() returns at once.                      *)
(***************************************************************************)
\* the keys told apart by handle_key_event: quit, help, close a dialog,
\* move in the playlist, toggle play/pause, stop, refresh
KeyCodes == {"q", "h", "Enter", "j", "p", "s", "r"}

\* a handler that keeps its guard over the call of the device
GuardKeptOverCall(k, help) ==
    IF ~help /\ k \in {"p", "s"} THEN "main" ELSE "none"

\* the holder of the lock when handle_key_event returns or reaches its first
\* await after the lock: every arm returns, which drops the guard, or calls
\* drop(state) first
GuardAfterKey(k, help) == "none"

\* a lock().await in the update task: it returns only once the lock is free
LockReturns(l) == l = "none"

\* state_clone.try_lock() returns whoever holds the lock l
TryLockReturns(l) == TRUE

\* tokio::sync::Mutex::lock().await returns: the lock is free
LockFree == lock = "none"

\* run(): the update task is spawned and the event loop entered
TuiRun ==
    /\ mpc = "idle"
    /\ mpc' = "check"
    /\ upc' = "tick"
    /\ UNCHANGED << baseVars, unitsButTui, lock, should_quit, show_help, last_update,
                    key_code, tried >>

\* update task: interval.tick().await is over and try_lock() is made; on
\* Ok, should_quit breaks the loop and otherwise update_status() starts
\* under the lock
UpdaterTick ==
    /\ upc = "tick"
    /\ TryLockReturns(lock)
    /\ tried' = Some(lock)
    /\ IF lock = "none"
       THEN IF should_quit THEN upc' = "done" /\ UNCHANGED lock
            ELSE upc' = "transport" /\ lock' = "updater"
       ELSE UNCHANGED << upc, lock >>
    /\ UNCHANGED << baseVars, unitsButTui, mpc, should_quit, show_help, last_update, key_code >>

\* update task: update_status()'s get_transport_info().await is over
UpdaterTransportReturns ==
    /\ upc = "transport"
    /\ upc' = "position"
    /\ UNCHANGED << baseVars, unitsButTui, mpc, lock, should_quit, show_help, last_update,
                    key_code, tried >>

\* update task: update_status()'s get_position_info().await is over,
\* last_update is set and the guard dropped
UpdaterPositionReturns ==
    /\ upc = "position"
    /\ last_update' = "updater"
    /\ lock' = "none"
    /\ upc' = "tick"
    /\ UNCHANGED << baseVars, unitsButTui, mpc, should_quit, show_help, key_code, tried >>

\* event loop: state.lock().await, should_quit is read, the guard dropped
MainCheck ==
    /\ mpc = "check"
    /\ LockFree
    /\ mpc' = IF should_quit THEN "cleanup" ELSE "draw"
    /\ UNCHANGED << baseVars, unitsButTui, upc, lock, should_quit, show_help, last_update,
                    key_code, tried >>

\* event loop: state.lock().await.clone() and terminal.draw, which fails or
\* not
MainDraw ==
    /\ mpc = "draw"
    /\ LockFree
    /\ \E drawn \in BOOLEAN : mpc' = IF drawn THEN "poll" ELSE "cleanup"
    /\ UNCHANGED << baseVars, unitsButTui, upc, lock, should_quit, show_help, last_update,
                    key_code, tried >>

\* event loop: event::poll and event::read: no key press, a key press, or
\* an error
MainPoll ==
    /\ mpc = "poll"
    /\ \/ mpc' = "check" /\ UNCHANGED key_code
       \/ mpc' = "cleanup" /\ UNCHANGED key_code
       \/ \E k \in KeyCodes : mpc' = "key" /\ key_code' = k
    /\ UNCHANGED << baseVars, unitsButTui, upc, lock, should_quit, show_help, last_update,
                    tried >>

\* handle_key_event: state_arc.lock().await, then the key is handled up to
\* the return or to the drop(state) before a call of the device
MainKey ==
    /\ mpc = "key"
    /\ LockFree
    /\ IF key_code = "q"
       THEN should_quit' = TRUE /\ mpc' = "check" /\ UNCHANGED show_help
       ELSE IF key_code = "h"
       THEN show_help' = ~show_help /\ mpc' = "check" /\ UNCHANGED should_quit
       ELSE IF show_help
       THEN /\ show_help' = IF key_code = "Enter" THEN FALSE ELSE show_help
            /\ mpc' = "check"
            /\ UNCHANGED should_quit
       ELSE /\ mpc' = IF key_code \in {"p", "s"} THEN "toggling"
                      ELSE IF key_code = "r" THEN "refresh"
                      ELSE "check"
            /\ UNCHANGED << should_quit, show_help >>
    /\ lock' = GuardAfterKey(key_code, show_help)
    /\ UNCHANGED << baseVars, unitsButTui, upc, last_update, key_code, tried >>

\* handle_key_event: toggle_play_pause(&render).await, or on 's'
\* pause(&render).await, is over
MainToggleReturns ==
    /\ mpc = "toggling"
    /\ mpc' = "message"
    /\ UNCHANGED << baseVars, unitsButTui, upc, lock, should_quit, show_help, last_update,
                    key_code, tried >>

\* handle_key_event: state_arc.lock().await to set the message of the result
MainMessage ==
    /\ mpc = "message"
    /\ LockFree
    /\ mpc' = "check"
    /\ UNCHANGED << baseVars, unitsButTui, upc, lock, should_quit, show_help, last_update,
                    key_code, tried >>

\* handle_key_event on 'r': state_arc.lock().await, update_status() starts
\* under the lock
MainRefresh ==
    /\ mpc = "refresh"
    /\ LockFree
    /\ lock' = "main"
    /\ mpc' = "transport"
    /\ UNCHANGED << baseVars, unitsButTui, upc, should_quit, show_help, last_update,
                    key_code, tried >>

\* handle_key_event on 'r': get_transport_info().await is over
MainTransportReturns ==
    /\ mpc = "transport"
    /\ mpc' = "position"
    /\ UNCHANGED << baseVars, unitsButTui, upc, lock, should_quit, show_help, last_update,
                    key_code, tried >>

\* handle_key_event on 'r': get_position_info().await is over, last_update
\* is set, the message set and the guard dropped
MainPositionReturns ==
    /\ mpc = "position"
    /\ last_update' = "main"
    /\ lock' = "none"
    /\ mpc' = "check"
    /\ UNCHANGED << baseVars, unitsButTui, upc, should_quit, show_help, key_code, tried >>

\* a run() that returns without aborting the update task
MainCleanupNoAbort ==
    /\ mpc = "cleanup"
    /\ mpc' = "returned"
    /\ UNCHANGED << baseVars, unitsButTui, upc, lock, should_quit, show_help, last_update,
                    key_code, tried >>

\* run(): the event loop is over; update_handle.abort() cancels the update
\* task where it awaits, which drops its guard
MainCleanup ==
    /\ mpc = "cleanup"
    /\ upc' = IF upc = "done" THEN "done" ELSE "aborted"
    /\ lock' = IF lock = "updater" THEN "none" ELSE lock
    /\ mpc' = "returned"
    /\ UNCHANGED << baseVars, unitsButTui, should_quit, show_help, last_update, key_code,
                    tried >>

NextTui ==
    \/ TuiRun
    \/ UpdaterTick
    \/ UpdaterTransportReturns
    \/ UpdaterPositionReturns
    \/ MainCheck
    \/ MainDraw
    \/ MainPoll
    \/ MainKey
    \/ MainToggleReturns
    \/ MainMessage
    \/ MainRefresh
    \/ MainTransportReturns
    \/ MainPositionReturns
    \/ MainCleanup

SpecTui == AllAtRest /\ [][NextTui]_vars

(***************************************************************************)
(* media::Playlist::from_directory(dir_path), with scan_directory.  A path *)
(* is the sequence of the bytes of its file name, the last of which stands *)
(* for its extension; PathBuf's order on the entries of one directory is   *)
(* the lexicographic order of these sequences.                             *)
(***************************************************************************)
\* cap on the number of entries read_dir yields
MaxDirEntries == 3

\* the extensions: 9 is a supported one (mp4), 8 is not (txt)
SupportedExtensions == {9}
PathPool == { << 1, 9 >>, << 2, 9 >>, << 1, 2, 9 >>, << 1, 8 >> }

\* is_supported_media_file
is_supported_media_file(path) == path[Len(path)] \in SupportedExtensions

\* an item of read_dir's iterator: an entry (a file or a subdirectory), or
\* an io::Error
DirItems == [ok : {TRUE}, path : PathPool, kind : {"file", "dir"}] \cup [ok : {FALSE}]

\* the listings of a directory: no path twice
Listings ==
    UNION {{l \in [1..n -> DirItems] :
               \A i, j \in 1..n : (i < j /\ l[i].ok /\ l[j].ok) => l[i].path # l[j].path}
           : n \in 0..MaxDirEntries}

\* <PathBuf as Ord>::lt
PathLess(a, b) ==
    \/ Len(a) < Len(b) /\ SubSeq(b, 1, Len(a)) = a
    \/ \E i \in 1..Len(a) :
          /\ i <= Len(b)
          /\ SubSeq(a, 1, i - 1) = SubSeq(b, 1, i - 1)
          /\ a[i] < b[i]

\* Vec::sort: p inserted into the sorted ps
RECURSIVE InsertPath(_, _)
InsertPath(p, ps) ==
    IF ps = << >> THEN << p >>
    ELSE IF PathLess(p, Head(ps)) THEN << p >> \o ps
    ELSE << Head(ps) >> \o InsertPath(p, Tail(ps))

RECURSIVE SortPaths(_)
SortPaths(ps) == IF ps = << >> THEN << >> ELSE InsertPath(Head(ps), SortPaths(Tail(ps)))

\* a scan that adds the files in the order they were found
UnsortedMediaFiles(media_files) == media_files

\* scan_directory: media_files.sort(), then add_file of each
SortedMediaFiles(media_files) == SortPaths(media_files)

\* scan_directory's loop: the media files pushed, in the order of the entries
RECURSIVE MediaFilesOf(_)
MediaFilesOf(l) ==
    IF l = << >> THEN << >>
    ELSE IF Head(l).kind = "file" /\ is_supported_media_file(Head(l).path)
         THEN << Head(l).path >> \o MediaFilesOf(Tail(l))
    ELSE MediaFilesOf(Tail(l))

\* Playlist::from_directory on what is at the path, read_dir succeeding or
\* not and yielding the listing l
FromDirectoryResult(at, read_ok, l) ==
    IF at = "missing" THEN MediaFileNotFound("Directory does not exist")
    ELSE IF at # "dir" THEN MediaFileNotFound("Path is not a directory")
    ELSE IF ~read_ok THEN MediaFileNotFound("Failed to read directory")
    ELSE IF \E i \in 1..Len(l) : ~l[i].ok
         THEN MediaFileNotFound("Failed to read directory entry")
    ELSE IF SortedMediaFiles(MediaFilesOf(l)) = << >>
         THEN MediaFileNotFound("No supported media files found in directory")
    ELSE OkValue([files |-> SortedMediaFiles(MediaFilesOf(l)), current_index |-> None,
                  loop_playlist |-> FALSE])

\* from_directory is called on a path that is missing, a file, or a directory
\* with any listing
FromDirectory ==
    /\ dir_path = ""
    /\ \E at \in {"missing", "file", "dir"}, read_ok \in BOOLEAN, l \in Listings :
         /\ at # "dir" => l = << >> /\ read_ok
         /\ ~read_ok => l = << >>
         /\ dir_path' = at
         /\ dir_entries' = IF read_ok THEN Some(l) ELSE None
         /\ dir_ret' = FromDirectoryResult(at, read_ok, l)
    /\ UNCHANGED << baseVars, unitsButDirectory >>

NextDirectory ==
    \/ FromDirectory

SpecDirectory == AllAtRest /\ [][NextDirectory]_vars

(***************************************************************************)
(* utils::time::time_str_to_milliseconds.  A time string is its fields and *)
(* the separators between them; the fields are taken from a pool of digit  *)
(* strings, a decimal, the empty string and a word.  u64 is kept at the    *)
(* width U64_BITS, so that the largest digit string of the pool is the     *)
(* largest u64 and the products of the code overflow as they do at 64      *)
(* bits.  A build with overflow checks panics on overflow, one without     *)
(* wraps.                                                                  *)
(***************************************************************************)
MaxParts == 4

\* the width of u64 in the model
U64_BITS == 30
U64_MAX == 2^U64_BITS - 1

\* the digit string of u64::MAX
BigPart == "1073741823"
TimeParts == {"", "invalid", "0", "1", "30", "1.5", BigPart}
Separators == {":", ","}

TimeStrings ==
    UNION { [parts : [1..n -> TimeParts], seps : [1..(n - 1) -> Separators]] :
              n \in 1..MaxParts }

\* str::parse::<u64>
ParseU64(p) ==
    CASE p = "0" -> Some(0)
      [] p = "1" -> Some(1)
      [] p = "30" -> Some(30)
      [] p = BigPart -> Some(U64_MAX)
      [] OTHER -> None

\* str::parse::<f64>, in thousandths; the largest value is cut to U64_MAX,
\* which is what the cast to u64 of a product with it gives
ParseF64(p) ==
    CASE p = "0" -> Some(0)
      [] p = "1" -> Some(1000)
      [] p = "30" -> Some(30000)
      [] p = "1.5" -> Some(1500)
      [] p = BigPart -> Some(U64_MAX)
      [] OTHER -> None

\* time_str.split(':'): the text of each piece; a piece that holds a comma
\* is no number
PieceOf(s, i) == 1 + Cardinality({j \in 1..(i - 1) : s.seps[j] = ":"})
SplitColon(s) ==
    [k \in 1..PieceOf(s, Len(s.parts)) |->
        LET fields == {i \in 1..Len(s.parts) : PieceOf(s, i) = k}
        IN IF Cardinality(fields) = 1
           THEN s.parts[CHOOSE i \in fields : TRUE]
           ELSE ","]

\* time_str.split(&[',', ':'])
SplitBoth(s) == s.parts

\* the cast `as u64` of a non-negative f64 product or sum: cut at u64::MAX
SatMul(a, k) == IF a > U64_MAX \div k THEN U64_MAX ELSE a * k
SatAdd(a, b) == IF a > U64_MAX - b THEN U64_MAX ELSE a + b

\* u64 `*` and `+`: the value modulo 2^U64_BITS and whether it overflowed
RECURSIVE MulMod(_, _)
MulMod(a, k) ==
    IF k = 0 THEN 0
    ELSE LET h == MulMod(a, k \div 2)
         IN (((h + h) % (U64_MAX + 1)) + (IF k % 2 = 1 THEN a ELSE 0)) % (U64_MAX + 1)
MulU64(a, k) ==
    [value |-> MulMod(a, k), overflowed |-> a > U64_MAX \div k]
AddU64(x, y) ==
    [value |-> (x.value + y.value) % (U64_MAX + 1),
     overflowed |-> x.overflowed \/ y.overflowed \/ x.value > U64_MAX - y.value]

\* parse_dlna_time_format: Err (None) or Ok(ms)
parse_dlna_time_format(s) ==
    LET pieces == SplitColon(s)
    IN IF Len(pieces) # 3 THEN None
       ELSE LET hours == ParseU64(pieces[1])
                minutes == ParseU64(pieces[2])
                seconds == ParseF64(pieces[3])
            IN IF hours = None \/ minutes = None \/ seconds = None THEN None
               ELSE Some(SatAdd(SatAdd(SatMul(hours[1], 3600000),
                                       SatMul(minutes[1], 60000)),
                                seconds[1]))

\* parse_subtitle_time_format: Err (None) or Ok of the sum, with whether a
\* `*` or `+` overflowed on the way
parse_subtitle_time_format(s) ==
    LET pieces == SplitBoth(s)
    IN IF Len(pieces) # 4 THEN None
       ELSE LET hours == ParseU64(pieces[1])
                minutes == ParseU64(pieces[2])
                seconds == ParseU64(pieces[3])
                milliseconds == ParseU64(pieces[4])
            IN IF hours = None \/ minutes = None \/ seconds = None
                  \/ milliseconds = None
               THEN None
               ELSE Some(AddU64(AddU64(AddU64(MulU64(hours[1], 3600000),
                                              MulU64(minutes[1], 60000)),
                                       MulU64(seconds[1], 1000)),
                                [value |-> milliseconds[1], overflowed |-> FALSE]))

\* time_str_to_milliseconds in a build with or without overflow checks
time_str_to_milliseconds(s, checks) ==
    LET dlna == parse_dlna_time_format(s)
        sub == parse_subtitle_time_format(s)
    IN IF dlna # None THEN [panicked |-> FALSE, value |-> dlna[1]]
       ELSE IF sub # None
       THEN IF sub[1].overflowed /\ checks
            THEN [panicked |-> TRUE, value |-> 0]
            ELSE [panicked |-> FALSE, value |-> sub[1].value]
       ELSE [panicked |-> FALSE, value |-> 0]

\* one call
TimeCall ==
    /\ time_str = None
    /\ \E s \in TimeStrings, checks \in BOOLEAN :
         /\ time_str' = Some(s)
         /\ overflow_checks' = checks
         /\ time_ret' = Some(time_str_to_milliseconds(s, checks))
    /\ UNCHANGED << baseVars, unitsButTime >>

NextTime ==
    \/ TimeCall

SpecTime == AllAtRest /\ [][NextTime]_vars

(***************************************************************************)
(* The play command when every call of dlna::play returns an error.  The   *)
(* sessions are not told apart: each pass of the loop uses the first one,  *)
(* so that a loop that goes round shows as a cycle.  The command is one    *)
(* task: whenever it can take a step it does (weak fairness).              *)
(***************************************************************************)
\* the errors dlna::play returns
PlayErrors ==
    {ErrRet("TemplateRenderError", "", << >>)}
        \cup {SetUriError(e, f) : e \in ErrVals, f \in 1..NumFiles}
        \cup {PlaybackError(e) : e \in ErrVals}
        \cup {ServerError}

\* the loop head, as CliIterateWith, for a session that takes the place of
\* the one before
CliIterateFailing ==
    /\ cliPc = "loop"
    /\ current_index' = NextIndex(files, current_index, loop_playlist)
    /\ LET f == NextFile(files, current_index, loop_playlist)
       IN IF f = None
          THEN /\ cliPc' = "done"
               /\ interactive' = Abort(interactive)
               /\ cmd_result' = Some(play_result)
               /\ UNCHANGED << cur, sessFile, pc, ret >>
          ELSE \E buildOk \in BOOLEAN :
                    IF buildOk
                    THEN /\ cur' = 1
                         /\ sessFile' = [sessFile EXCEPT ![1] = f[1]]
                         /\ ret' = [ret EXCEPT ![1] = NoRet]
                         /\ cliPc' = "playing"
                         /\ pc' = "start"
                         /\ UNCHANGED << cmd_result, interactive >>
                    ELSE /\ cliPc' = "done"
                         /\ \E kind \in BuildErrors :
                              cmd_result' = Some(ErrRet(kind, "", << >>))
                         /\ UNCHANGED << cur, sessFile, pc, ret, interactive >>
    /\ UNCHANGED << files, loop_playlist, playlist_mode, play_result, syncer,
                    retry, opHistory, log, taskVars, otherVars >>

\* dlna::play(..).await returns an error
PlayFails ==
    /\ cliPc = "playing"
    /\ pc = "start"
    /\ \E e \in PlayErrors : ret' = [ret EXCEPT ![cur] = e]
    /\ pc' = "returned"
    /\ UNCHANGED << cliVars, syncer, retry, opHistory, log, taskVars, otherVars >>

NextFailing ==
    \/ CliIterateFailing
    \/ PlayFails
    \/ CliAfterPlay

SpecFailing ==
    /\ Init
    /\ [][NextFailing]_vars
    /\ WF_vars(CliIterateFailing)
    /\ WF_vars(PlayFails)
    /\ WF_vars(CliAfterPlay)

(***************************************************************************)
(* Vocabulary of the properties.                                           *)
(***************************************************************************)
\* call s of play() has returned
Returned(s) == ret[s] # NoRet

\* the positions of the log where the running call's action a has kind k
Events(a, k) == {i \in 1..Len(log) : log[i] = << cur, a, k >>}

\* action a is in flight after the first n entries of the log
InFlight(a, n) ==
    Cardinality({i \in Events(a, "send") : i <= n})
        > Cardinality({i \in Events(a, "ok") \cup Events(a, "err") : i <= n})

TickFailures == {"action_err", "parse_err", "clip_err"}

(***************************************************************************)
(* C1: in play(), every Play attempt is sent after SetAVTransportURI has   *)
(* returned success and after every SetAVTransportURI attempt (sent and    *)
(* answered), and the two actions are never in flight at the same time.    *)
(***************************************************************************)
C1_SetUriBeforePlay ==
    /\ \A i \in Events("Play", "send") :
         /\ \E j \in Events("SetAVTransportURI", "ok") : j < i
         /\ \A k \in 1..Len(log) : log[k][2] = "SetAVTransportURI" => k < i
    /\ \A n \in 0..Len(log) :
         ~(InFlight("SetAVTransportURI", n) /\ InFlight("Play", n))

\* Play has been sent after SetAVTransportURI failed once and then succeeded
C1_Witness ==
    /\ Events("Play", "send") # {}
    /\ Events("SetAVTransportURI", "err") # {}
    /\ InFlight("Play", Len(log))

(***************************************************************************)
(* C2: retry_with_backoff invokes the operation at most                    *)
(* MAX_NETWORK_RETRIES (3) times; a success is the last invocation and is  *)
(* returned at once; an operation failing twice and then succeeding yields *)
(* success after exactly 3 invocations.                                    *)
(***************************************************************************)
C2_RetryBudget ==
    /\ retry.calls <= 3
    /\ retry.calls = Len(opHistory) + (IF retry.pc = "inflight" THEN 1 ELSE 0)
    /\ \A i \in 1..Len(opHistory) :
         opHistory[i] = "ok" =>
            /\ i = Len(opHistory)
            /\ retry.pc = "returned"
            /\ retry.result = Some([ok |-> TRUE, val |-> "ok"])
            /\ retry.calls = i
    /\ (/\ Len(opHistory) = 3
        /\ opHistory[1] \in ErrVals
        /\ opHistory[2] \in ErrVals
        /\ opHistory[3] = "ok")
         => (retry.result = Some([ok |-> TRUE, val |-> "ok"]) /\ retry.calls = 3)

\* the operation failed twice, then succeeded, and the call has returned
C2_Witness ==
    /\ Len(opHistory) = 3
    /\ opHistory[1] \in ErrVals
    /\ opHistory[2] \in ErrVals
    /\ opHistory[3] = "ok"
    /\ retry.pc = "returned"

(***************************************************************************)
(* C3: when the operation fails on all 3 attempts, retry_with_backoff      *)
(* returns the error of the third attempt, unchanged, after exactly 3      *)
(* invocations; and it returns an error in no other case.                  *)
(***************************************************************************)
C3_LastErrorReturned ==
    /\ (Len(opHistory) = 3 /\ \A i \in 1..3 : opHistory[i] \in ErrVals)
         => /\ retry.pc = "returned"
            /\ retry.result = Some([ok |-> FALSE, val |-> opHistory[3]])
            /\ retry.calls = 3
    /\ (retry.result # None /\ ~retry.result[1].ok)
         => (Len(opHistory) = 3 /\ \A i \in 1..3 : opHistory[i] \in ErrVals)

\* three failures, the third with another error than the first two
C3_Witness ==
    /\ Len(opHistory) = 3
    /\ \A i \in 1..3 : opHistory[i] \in ErrVals
    /\ opHistory[1] # opHistory[3]
    /\ opHistory[2] # opHistory[3]
    /\ retry.pc = "returned"

(***************************************************************************)
(* C4: retry_with_backoff waits only between attempts: 100 ms after the    *)
(* first failed attempt, 200 ms after the second, and nothing after the    *)
(* final failed attempt or after a success.                                *)
(***************************************************************************)
C4_DelaysBetweenAttempts ==
    /\ Len(retry.delays) <= 2
    /\ \A k \in 1..Len(retry.delays) :
         retry.delays[k] = (IF k = 1 THEN 100 ELSE 200)
    /\ retry.pc = "sleep" => Len(retry.delays) = Len(opHistory)
    /\ retry.pc \in {"call", "inflight"} => Len(retry.delays) = retry.attempt - 1
    /\ retry.pc = "returned" => Len(retry.delays) = Len(opHistory) - 1

\* all three attempts failed: two waits, none after the last attempt
C4_Witness ==
    /\ retry.pc = "returned"
    /\ ~retry.result[1].ok
    /\ retry.delays = << 100, 200 >>


(***************************************************************************)
(* C5: if SetAVTransportURI fails on every retry attempt, play() returns   *)
(* DlnaSetTransportUriFailed carrying the session's video URI, no Play     *)
(* action is sent for that session and its subtitle-sync clock is never    *)
(* started.                                                                *)
(***************************************************************************)
C5_SetUriFailureIsFatal ==
    /\ Cardinality(Events("SetAVTransportURI", "err")) = 3
         => /\ Events("Play", "send") = {}
            /\ clock[cur] = "none"
            /\ pc \in {"set_uri", "returned"}
            /\ pc = "returned" =>
                  /\ ret[cur].kind = "DlnaSetTransportUriFailed"
                  /\ ret[cur].source \in ErrVals
                  /\ ret[cur].uri = video_uri(sessFile[cur])
    /\ \A s \in Sessions :
         ret[s].kind = "DlnaSetTransportUriFailed"
            => (clock[s] = "none" /\ ret[s].uri = video_uri(sessFile[s]))

\* play() has returned DlnaSetTransportUriFailed although a syncer was supplied
C5_Witness ==
    /\ pc = "returned"
    /\ syncer
    /\ Cardinality(Events("SetAVTransportURI", "err")) = 3
    /\ ret[cur].kind = "DlnaSetTransportUriFailed"

(***************************************************************************)
(* C6: if SetAVTransportURI succeeds but Play fails on every retry         *)
(* attempt, play() returns DlnaPlaybackFailed and the subtitle-sync clock  *)
(* is never started, even when a syncer was supplied.                      *)
(***************************************************************************)
C6_PlayFailureIsFatal ==
    /\ Cardinality(Events("Play", "err")) = 3
         => /\ clock[cur] = "none"
            /\ pc \in {"play", "returned"}
            /\ pc = "returned" => ret[cur].kind = "DlnaPlaybackFailed"
    /\ \A s \in Sessions :
         ret[s].kind = "DlnaPlaybackFailed" => clock[s] = "none"

\* play() has returned DlnaPlaybackFailed although a syncer was supplied
C6_Witness ==
    /\ pc = "returned"
    /\ syncer
    /\ Events("SetAVTransportURI", "ok") # {}
    /\ Cardinality(Events("Play", "err")) = 3
    /\ ret[cur].kind = "DlnaPlaybackFailed"

(***************************************************************************)
(* C7: whenever play() has returned after having started the subtitle-sync *)
(* clock, the clock has been cancelled (so it ticks no more).              *)
(***************************************************************************)
C7_ClockCancelledOnReturn ==
    \A s \in Sessions :
        (Returned(s) /\ clock[s] # "none") => clock[s] = "aborted"

(***************************************************************************)
(* C8: a tick of the subtitle-sync clock that fails (GetPositionInfo       *)
(* error, response parse error, clipboard update error) leaves the clock   *)
(* running, waiting for its next tick, and changes neither where play() is *)
(* nor any result.                                                         *)
(***************************************************************************)
C8_TickFailureIsNotFatal ==
    [][\A s \in Sessions :
         (/\ clock[s] = "polling"
          /\ clock'[s] \notin {"polling", "aborted"}
          /\ lastTick' # None
          /\ lastTick'[1] = s
          /\ lastTick'[2] \in TickFailures)
            => /\ clock'[s] = "waiting"
               /\ pc' = pc
               /\ ret' = ret
               /\ play_result' = play_result
               /\ cmd_result' = cmd_result]_vars

\* a clock polls again after a failed tick, while play() awaits the server
C8_Witness ==
    /\ pc = "join"
    /\ clock[cur] = "polling"
    /\ lastTick # None
    /\ lastTick[1] = cur
    /\ lastTick[2] \in TickFailures

(***************************************************************************)
(* C9: once play() for an entry has returned, with success or any error,   *)
(* the streaming-server task spawned for that entry no longer runs, so the *)
(* server tasks of two entries are never alive at the same time.           *)
(***************************************************************************)
C9_ServerEndsWithPlay ==
    /\ \A s \in Sessions : Returned(s) => server[s] # "running"
    /\ \A s, t \in Sessions :
         (s # t /\ server[s] = "running") => server[t] # "running"

(***************************************************************************)
(* C10: after SetAVTransportURI and Play have both succeeded, play() does  *)
(* not return while the streaming-server task runs, and it returns Ok only *)
(* after that task has completed without fault.                            *)
(***************************************************************************)
C10_ReturnsAfterServer ==
    /\ pc = "join" => ~Returned(cur)
    /\ \A s \in Sessions :
         /\ ret[s].kind = "Ok" => server[s] = "completed"
         /\ ret[s].kind \in {"Ok", "StreamingServerError"} => server[s] # "running"

\* play() has returned Ok after the server task completed
C10_Witness ==
    /\ pc = "returned"
    /\ ret[cur].kind = "Ok"
    /\ server[cur] = "completed"

(***************************************************************************)
(* C11: when the streaming-server task has ended with a fault (a JoinError *)
(* such as a panic in the task) after SetAVTransportURI and Play           *)
(* succeeded, the await of its handle makes play() return                  *)
(* StreamingServerError wrapping that fault; and play() returns            *)
(* StreamingServerError in no other case.                                  *)
(***************************************************************************)
C11_ServerFaultIsReturned ==
    [][/\ (pc = "join" /\ server[cur] = "panicked" /\ pc' # "join")
            => /\ pc' = "returned"
               /\ ret'[cur].kind = "StreamingServerError"
               /\ ret'[cur].source = "JoinError"
       /\ \A s \in Sessions :
            ret'[s].kind = "StreamingServerError" => server'[s] = "panicked"]_vars

\* play() has returned StreamingServerError for a server task that panicked
C11_Witness ==
    /\ pc = "returned"
    /\ server[cur] = "panicked"
    /\ ret[cur] = ServerError

(***************************************************************************)
(* C12: in play(), the streaming-server task has been spawned by the time  *)
(* the first SetAVTransportURI attempt is sent, and the spawn does not     *)
(* block that attempt: the attempt can be sent whatever the server task    *)
(* is doing, in particular while it still runs.                            *)
(***************************************************************************)
C12_ServerSpawnedBeforeSetUri ==
    /\ pc = "set_uri" => server[cur] # "none"
    /\ Events("SetAVTransportURI", "send") # {} => server[cur] # "none"
    /\ (pc = "set_uri" /\ retry.pc = "call") => ENABLED RetrySend

\* the first SetAVTransportURI attempt is in flight while the server runs
C12_Witness ==
    /\ pc = "set_uri"
    /\ log = << << cur, "SetAVTransportURI", "send" >> >>
    /\ server[cur] = "running"

(***************************************************************************)
(* C13: in the CLI play loop, with playlist mode on, a failed playback of  *)
(* one entry does not end the command: the loop goes on to the next        *)
(* playlist entry; with playlist mode off, the loop stops after the first  *)
(* entry and the command returns that entry's result (the failure, if it   *)
(* failed).                                                                *)
(***************************************************************************)
\* the entry that follows entry f in the playlist (the first after the last)
EntryAfter(f) ==
    LET i == CHOOSE k \in 1..Len(files) : files[k] = f
    IN files[(i % Len(files)) + 1]

PlayFailures ==
    {"TemplateRenderError", "DlnaSetTransportUriFailed", "DlnaPlaybackFailed",
     "StreamingServerError"}

C13_FailurePolicy ==
    /\ playlist_mode =>
         /\ cmd_result # None => cmd_result[1].kind \notin PlayFailures
         /\ \A s \in Sessions :
              /\ (s < cur) => sessFile[s + 1] = EntryAfter(sessFile[s])
              /\ (Returned(s) /\ (s < cur \/ cliPc = "loop"))
                    => cmd_result = None \/ cmd_result[1].kind \in BuildErrors
         /\ (cliPc = "loop" /\ cur >= 1) => play_result = ret[cur]
    /\ ~playlist_mode =>
         /\ cur <= 1
         /\ cliPc # "loop" \/ cur = 0
         /\ (cur = 1 /\ cliPc = "done") => cmd_result = Some(ret[1])
         /\ (cur = 1 /\ cliPc = "playing") => cmd_result = None

\* playlist mode: the first entry's playback failed and the second is played
C13_Witness ==
    /\ playlist_mode
    /\ cur = 2
    /\ ret[1].kind = "DlnaPlaybackFailed"
    /\ sessFile[2] = files[2]
    /\ pc = "join"

C15_CursorInRange ==
    /\ current_index = None \/ current_index[1] \in 0..(Len(files) - 1)
    /\ (CurrentFile(files, current_index) # None) <=> (current_index # None)

\* the cursor is on the last entry of a playlist that was grown by add_file
\* after the cursor had been moved
C15_Witness ==
    /\ call.op = "next_file"
    /\ call.prev = "add_file"
    /\ call.current_index # None
    /\ current_index = Some(Len(files) - 1)
    /\ CurrentFile(files, current_index) = Some(files[Len(files)])

(***************************************************************************)
(* C16: on a playlist of n >= 1 entries f0..f(n-1) with a fresh cursor,    *)
(* the k-th of k consecutive next_file calls returns f(k-1) for k <= n and *)
(* None for every k > n when looping is off, and returns f((k-1) mod n),   *)
(* never None, when looping is on.                                         *)
(***************************************************************************)
C16_NextSequence ==
    (streak >= 1 /\ Len(files) >= 1) =>
        /\ call.op = "next_file"
        /\ call.files = files
        /\ IF loop_playlist
           THEN /\ call.ret = Some(files[((streak - 1) % Len(files)) + 1])
                /\ current_index = Some((streak - 1) % Len(files))
           ELSE IF streak <= Len(files)
                THEN /\ call.ret = Some(files[streak])
                     /\ current_index = Some(streak - 1)
                ELSE /\ call.ret = None
                     /\ current_index = Some(Len(files) - 1)

\* looping on: the call after the last entry has returned the first again
C16_Witness ==
    /\ loop_playlist
    /\ Len(files) = 2
    /\ streak = 3
    /\ call.ret = Some(files[1])

(***************************************************************************)
(* C17: with looping off, a next_file call made while the cursor is at the *)
(* last index returns None and changes nothing: the cursor stays at that   *)
(* index (and files and the loop flag are as before), so every further     *)
(* next_file call returns None too, until reset is called.                 *)
(***************************************************************************)
C17_ExhaustedStays ==
    /\ (/\ call.op = "next_file"
        /\ ~call.loop_playlist
        /\ Len(call.files) >= 1
        /\ call.current_index = Some(Len(call.files) - 1))
          => /\ call.ret = None
             /\ current_index = call.current_index
             /\ files = call.files
             /\ loop_playlist = call.loop_playlist
    /\ (~loop_playlist /\ Len(files) >= 1 /\ streak > Len(files))
          => /\ call.ret = None
             /\ current_index = Some(Len(files) - 1)
    /\ (call.op = "next_file" /\ call.prev = "reset" /\ Len(files) >= 1)
          => call.ret # None

\* the second next_file call past the end has returned None
C17_Witness ==
    /\ ~loop_playlist
    /\ Len(files) = 2
    /\ streak = 4
    /\ call.prev = "next_file"
    /\ call.ret = None
    /\ current_index = Some(1)

(***************************************************************************)
(* C18: previous_file on a playlist that is not empty: from a cursor of    *)
(* None it moves to the last index and returns the last file; from an      *)
(* index i > 0 it moves to i - 1 (and returns that file); at index 0 it    *)
(* wraps to the last index when looping is on, and otherwise returns None  *)
(* and leaves the cursor at 0.                                             *)
(***************************************************************************)
C18_Previous ==
    (call.op = "previous_file" /\ Len(call.files) >= 1) =>
        LET n == Len(call.files)
            i == call.current_index
        IN /\ files = call.files
           /\ loop_playlist = call.loop_playlist
           /\ i = None =>
                (current_index = Some(n - 1) /\ call.ret = Some(files[n]))
           /\ (i # None /\ i[1] > 0) =>
                (current_index = Some(i[1] - 1) /\ call.ret = Some(files[i[1]]))
           /\ (i = Some(0) /\ call.loop_playlist) =>
                (current_index = Some(n - 1) /\ call.ret = Some(files[n]))
           /\ (i = Some(0) /\ ~call.loop_playlist) =>
                (current_index = Some(0) /\ call.ret = None)

\* looping off: previous_file at index 0 of a playlist of two has returned None
C18_Witness ==
    /\ call.op = "previous_file"
    /\ Len(call.files) = 2
    /\ call.current_index = Some(0)
    /\ ~call.loop_playlist
    /\ call.ret = None

(***************************************************************************)
(* C19: reset sets the cursor to None from any state and changes neither   *)
(* the files nor the loop flag; set_loop(b) sets the loop flag to b and    *)
(* changes neither the cursor nor the files; the first next_file call      *)
(* after reset returns the entry at index 0.                               *)
(***************************************************************************)
C19_ResetAndSetLoop ==
    /\ call.op = "reset" =>
         /\ current_index = None
         /\ files = call.files
         /\ loop_playlist = call.loop_playlist
    /\ call.op = "set_loop" =>
         /\ loop_playlist = call.arg[1]
         /\ current_index = call.current_index
         /\ files = call.files
    /\ (call.op = "next_file" /\ call.prev = "reset") =>
         /\ call.ret = CurrentFile(call.files, Some(0))
         /\ Len(files) >= 1 => current_index = Some(0)

\* the next_file call that followed a reset has returned the first entry of
\* a playlist of two
C19_Witness ==
    /\ call.op = "next_file"
    /\ call.prev = "reset"
    /\ Len(files) = 2
    /\ call.ret = Some(files[1])
    /\ current_index = Some(0)

(***************************************************************************)
(* C20: a call of toggle_play_pause sends GetTransportInfo once and then,  *)
(* the state having been read, calls exactly one command, chosen by that   *)
(* state alone: pause (the Pause action) when it is PLAYING, resume (the   *)
(* Play action) when it is PAUSED_PLAYBACK or STOPPED and for every other  *)
(* or unknown state; no action of the other command goes to the device.    *)
(***************************************************************************)
C20_ToggleByState ==
    /\ tpc # "idle" => Cardinality(Events("GetTransportInfo", "send")) = 1
    /\ transport_state = None =>
         /\ commands = << >>
         /\ \A i \in 1..Len(log) : log[i][2] = "GetTransportInfo"
    /\ transport_state # None =>
         LET state == transport_state[1]
             expected == IF state = "PLAYING" THEN "Pause" ELSE "Play"
         IN /\ tpc \in {"command", "returned"}
            /\ Len(commands) = 1
            /\ commands[1] = (IF state = "PLAYING" THEN "pause" ELSE "resume")
            /\ log[1] = << cur, "GetTransportInfo", "send" >>
            /\ log[2] = << cur, "GetTransportInfo", "ok" >>
            /\ \A i \in 3..Len(log) : log[i][2] = expected
            /\ (tpc = "returned" /\ toggle_result = OkRet)
                  => Cardinality(Events(expected, "ok")) = 1

\* an unknown state was read, and resume has been called and has succeeded
C20_Witness ==
    /\ tpc = "returned"
    /\ transport_state = Some("TRANSITIONING")
    /\ commands = << "resume" >>
    /\ Events("Play", "ok") # {}
    /\ toggle_result = OkRet

(***************************************************************************)
(* C21: get_transport_info and get_position_info are not retried: a call   *)
(* sends its action to the device exactly once, and when that one attempt  *)
(* fails the call returns DlnaActionFailed naming the action; pause and    *)
(* resume go through the retry policy: up to 3 attempts, all 3 made before *)
(* a failure is returned.                                                  *)
(***************************************************************************)
C21_QueriesOnceCommandsRetried ==
    /\ rop \in {"get_position_info", "get_transport_info"} =>
         LET action == IF rop = "get_position_info" THEN "GetPositionInfo"
                       ELSE "GetTransportInfo"
         IN /\ Cardinality(Events(action, "send")) = 1
            /\ \A i \in 1..Len(log) : log[i][2] = action
            /\ retry.calls = 0
            /\ Events(action, "err") # {} =>
                 /\ rpc = "returned"
                 /\ rret.kind = "DlnaActionFailed"
                 /\ rret.action = action
                 /\ rret.source \in ErrVals
            /\ (rpc = "returned" /\ rret.kind = "DlnaActionFailed")
                 => Events(action, "err") # {}
    /\ rop \in {"pause", "resume"} =>
         LET action == IF rop = "pause" THEN "Pause" ELSE "Play"
         IN /\ Cardinality(Events(action, "send")) <= 3
            /\ \A i \in 1..Len(log) : log[i][2] = action
            /\ (Events(action, "err") # {} /\ Events(action, "ok") = {}
                /\ Cardinality(Events(action, "err")) < 3) => rpc = "command"
            /\ (rpc = "returned" /\ rret.kind # "Ok") =>
                 /\ rret.kind = "DlnaPlaybackFailed"
                 /\ Cardinality(Events(action, "send")) = 3
                 /\ Cardinality(Events(action, "err")) = 3

\* get_position_info has returned DlnaActionFailed after its one attempt
C21_Witness ==
    /\ rop = "get_position_info"
    /\ rpc = "returned"
    /\ log = << << cur, "GetPositionInfo", "send" >>, << cur, "GetPositionInfo", "err" >> >>
    /\ rret.kind = "DlnaActionFailed"
    /\ rret.action = "GetPositionInfo"

(***************************************************************************)
(* C29: parsing a GetPositionInfo response: a field absent from the        *)
(* response takes its default (the empty string for a text field, -1 for   *)
(* RelCount and AbsCount), and a numeric field that is present but cannot  *)
(* be parsed makes get_position_info fail with DlnaResponseParseError      *)
(* naming the action and an offending field; then no PositionInfo, not     *)
(* even a partly filled one, is returned.                                  *)
(***************************************************************************)
\* field f of response m is present and holds no number of the field's type
Unparsable(m, f) ==
    /\ m[f] # None
    /\ \/ m[f][1] = "abc"
       \/ f = "Track" /\ m[f][1] = "-5"

\* the number a parsable text stands for
NumberOf(text) == IF text = "7" THEN 7 ELSE -5

\* the field of PositionInfo built from response field f
FieldOf(f) ==
    CASE f = "Track" -> "track"
      [] f = "RelCount" -> "rel_count"
      [] f = "AbsCount" -> "abs_count"
      [] f = "TrackDuration" -> "track_duration"
      [] f = "TrackMetaData" -> "track_meta_data"
      [] f = "TrackURI" -> "track_uri"
      [] f = "RelTime" -> "rel_time"
      [] f = "AbsTime" -> "abs_time"

C29_PositionInfoParsing ==
    (rop = "get_position_info" /\ response # None) =>
        LET m == response[1]
        IN /\ rpc = "returned"
           /\ IF \E f \in NumericFields : Unparsable(m, f)
              THEN /\ rret.kind = "DlnaResponseParseError"
                   /\ rret.action = "GetPositionInfo"
                   /\ Unparsable(m, rret.error[2])
                   /\ DOMAIN rret = {"kind", "action", "error"}
              ELSE /\ rret.kind = "Ok"
                   /\ \A f \in TextFields :
                        rret.value[FieldOf(f)] = (IF m[f] = None THEN "" ELSE m[f][1])
                   /\ \A f \in {"RelCount", "AbsCount"} :
                        rret.value[FieldOf(f)] =
                            (IF m[f] = None THEN -1 ELSE NumberOf(m[f][1]))
                   /\ m["Track"] # None => rret.value.track = NumberOf(m["Track"][1])

\* every field but AbsCount is absent and AbsCount holds no number
C29_Witness ==
    /\ rop = "get_position_info"
    /\ response # None
    /\ \A f \in PositionFields : (response[1][f] # None) <=> (f = "AbsCount")
    /\ response[1]["AbsCount"] = Some("abc")
    /\ rret = ResponseParseError("GetPositionInfo", << "Failed to parse", "AbsCount" >>)

(***************************************************************************)
(* Vocabulary of the devices' properties.                                  *)
(***************************************************************************)
\* item is a response describing a device that has AVTransport
ValidResponse(item) == item.ok /\ item.device.av

\* the devices of the valid responses, in the order of the responses
ValidDevices == [i \in 1..Len(SelectSeq(responses, ValidResponse)) |->
                    SelectSeq(responses, ValidResponse)[i].device]

\* the position in ValidDevices where the URL u occurs first
FirstOccurrence(u) ==
    CHOOSE i \in 1..Len(ValidDevices) :
        /\ ValidDevices[i].url = u
        /\ \A j \in 1..(i - 1) : ValidDevices[j].url # u

\* a call of Render::discover itself has returned what the stream gave
DiscoverReturned == dpc = "returned" /\ render_spec = None /\ responses # << >>

\* text q occurs in text s: s is some a characters, then q, then the rest
HasSubstring(s, q) ==
    \E a \in 0..Len(s) :
        /\ a + Len(q) <= Len(s)
        /\ \A k \in 1..Len(q) : s[a + k] = q[k]

(***************************************************************************)
(* C22: discovery deduplicates by URL.  When the responses describing      *)
(* AVTransport devices reference M distinct URLs, the renders of discover  *)
(* (while it loops and as it returns them) are exactly M, no two with the  *)
(* same URL, each the device of the first response with its URL, ordered   *)
(* by the first occurrence of each URL in the response sequence.           *)
(***************************************************************************)
C22_DedupByUrl ==
    /\ Len(renders) = Cardinality({ValidDevices[i].url : i \in 1..Len(ValidDevices)})
    /\ \A a, b \in 1..Len(renders) : a # b => renders[a].url # renders[b].url
    /\ \A a \in 1..Len(renders) :
         /\ \E i \in 1..Len(ValidDevices) : ValidDevices[i].url = renders[a].url
         /\ renders[a] = ValidDevices[FirstOccurrence(renders[a].url)]
    /\ \A a, b \in 1..Len(renders) :
         a < b => FirstOccurrence(renders[a].url) < FirstOccurrence(renders[b].url)
    /\ DiscoverReturned => dret = OkValue(renders)

\* discover has returned two renders for three responses, the third
\* repeating the URL of the first under another name
C22_Witness ==
    /\ DiscoverReturned
    /\ Len(responses) = 3
    /\ \A i \in 1..3 : ValidResponse(responses[i])
    /\ responses[1].device.url = responses[3].device.url
    /\ responses[1].device.url # responses[2].device.url
    /\ responses[1].device.friendly_name # responses[3].device.friendly_name
    /\ dret.kind = "Ok"
    /\ Len(dret.value) = 2

(***************************************************************************)
(* C23: a response that is an error and a device without AVTransport are   *)
(* skipped without failing discovery: once the stream has been obtained,   *)
(* discover returns Ok, the result has a descriptor for the URL of every   *)
(* valid response, and every returned descriptor exposes AVTransport.      *)
(***************************************************************************)
C23_PartialFailureSkipped ==
    DiscoverReturned =>
        /\ dret.kind = "Ok"
        /\ \A i \in 1..Len(responses) :
             ValidResponse(responses[i]) =>
                 \E k \in 1..Len(dret.value) : dret.value[k].url = responses[i].device.url
        /\ \A k \in 1..Len(dret.value) : dret.value[k].av

\* discover has returned the one valid device of three responses, the other
\* two being an error and a device without AVTransport
C23_Witness ==
    /\ DiscoverReturned
    /\ Len(responses) = 3
    /\ ~responses[1].ok
    /\ responses[2].ok /\ ~responses[2].device.av
    /\ ValidResponse(responses[3])
    /\ dret = OkValue(<< responses[3].device >>)

(***************************************************************************)
(* C24.                                                                    *)
(***************************************************************************)
\* Render::new(Location(url)) with a URL that parses has returned
LocationReturned ==
    /\ dpc = "returned"
    /\ render_spec # None
    /\ render_spec[1].kind = "Location"
    /\ UriParse(render_spec[1].arg) # None

\* the last attempt to construct the device failed
ConstructionFailed == opHistory # << >> /\ opHistory[Len(opHistory)] # "ok"

\* the device was constructed and lacks AVTransport
LacksService ==
    /\ opHistory # << >> /\ opHistory[Len(opHistory)] = "ok"
    /\ device # None /\ ~device[1].av

\* the claim as stated: selection by location fails with RenderNotFound in
\* both cases
C24_LocationFailsRenderNotFound ==
    /\ LocationReturned /\ (ConstructionFailed \/ LacksService)
           => dret = RenderNotFound(render_spec[1])
    /\ dpc \in {"creating", "returned"} => Len(opHistory) <= MAX_NETWORK_RETRIES

(***************************************************************************)
(* C24 as amended: selecting a device by exact location fails with         *)
(* DeviceCreationError (carrying the URL and the last attempt's error)     *)
(* when the device cannot be constructed from the URL after the            *)
(* retry-wrapped attempts, and with RenderNotFound (carrying the selector) *)
(* when the constructed device lacks the AVTransport service; device       *)
(* construction from the URL is attempted at most 3 times.                 *)
(***************************************************************************)
C24_LocationFailures ==
    /\ LocationReturned /\ ConstructionFailed
           => /\ dret = DeviceCreationError(render_spec[1].arg, opHistory[Len(opHistory)])
              /\ Len(opHistory) = MAX_NETWORK_RETRIES
              /\ \A i \in 1..Len(opHistory) : opHistory[i] # "ok"
    /\ LocationReturned /\ LacksService => dret = RenderNotFound(render_spec[1])
    /\ dpc \in {"creating", "returned"} =>
           /\ Len(opHistory) <= MAX_NETWORK_RETRIES
           /\ retry.calls <= MAX_NETWORK_RETRIES

\* the selection by location has failed after three attempts failed
C24_Witness ==
    /\ LocationReturned
    /\ ConstructionFailed
    /\ retry.calls = 3
    /\ dret.kind = "DeviceCreationError"

(***************************************************************************)
(* C25: selecting by query returns the first discovered device, in         *)
(* discovery order, whose formatted descriptor contains the query, and     *)
(* fails with RenderNotFound when none does; selecting First returns the   *)
(* first discovered device and fails with RenderNotFound when discovery    *)
(* returns none.                                                           *)
(***************************************************************************)
C25_QueryAndFirst ==
    dpc = "returned" /\ render_spec # None /\ dret.kind # "DeviceDiscoveryFailed" =>
        LET spec == render_spec[1]
            matches == {i \in 1..Len(renders) :
                           HasSubstring(RenderToString(renders[i]), spec.arg)}
        IN /\ spec.kind = "Query" /\ matches = {} => dret = RenderNotFound(spec)
           /\ spec.kind = "Query" /\ matches # {} =>
                  \E i \in matches :
                      /\ \A j \in matches : i <= j
                      /\ dret = OkValue(renders[i])
           /\ spec.kind = "First" /\ renders = << >> => dret = RenderNotFound(spec)
           /\ spec.kind = "First" /\ renders # << >> => dret = OkValue(renders[1])

\* a query has selected the second of the two discovered devices, the first
\* not matching it
C25_Witness ==
    /\ dpc = "returned"
    /\ render_spec # None /\ render_spec[1].kind = "Query"
    /\ Len(renders) = 2 /\ Len(responses) = 3
    /\ ~HasSubstring(RenderToString(renders[1]), render_spec[1].arg)
    /\ HasSubstring(RenderToString(renders[2]), render_spec[1].arg)
    /\ dret = OkValue(renders[2])

(***************************************************************************)
(* C26: MediaStreamingServer::new fails with NetworkAddressParseError when *)
(* host:port does not parse as a socket address, with MediaFileNotFound    *)
(* when the video path does not exist and when a supplied subtitle path    *)
(* does not exist, and returns a session only when none of these holds.    *)
(* (When several hold, any of the named errors is accepted.)               *)
(***************************************************************************)
C26_ConstructionValidates ==
    spc # "idle" =>
        LET a == new_args[1]
            badAddr == ParseSocketAddr(a.host_ip, a.host_port) = None
            noVideo == a.video_path \notin existing
            noSubtitle == a.subtitle_path # None /\ a.subtitle_path[1] \notin existing
        IN /\ badAddr /\ ~noVideo /\ ~noSubtitle => new_ret.kind = "NetworkAddressParseError"
           /\ noVideo /\ ~badAddr => new_ret.kind = "MediaFileNotFound"
           /\ noSubtitle /\ ~badAddr => new_ret.kind = "MediaFileNotFound"
           /\ new_ret.kind = "Ok" <=> ~(badAddr \/ noVideo \/ noSubtitle)

(***************************************************************************)
(* C27: the running server answers GET on the video's segment with the     *)
(* video file and, when the session has a subtitle, GET on the subtitle's  *)
(* segment with the subtitle file (on the placeholder segment when it has  *)
(* none), so that the URL of subtitle_uri() is one the server serves.      *)
(* (Files are taken to exist, and the two segments to differ.)             *)
(***************************************************************************)
C27_ServesVideoAndSubtitle ==
    spc = "running" /\ request # None /\ request[1].method = "GET" =>
        LET srv == new_ret.value
            seg == request[1].segment
        IN /\ seg = srv.video_file.file_uri /\ srv.video_file.file_path \in existing
                  => reply[1] = [status |-> 200, file |-> srv.video_file.file_path]
           /\ subtitle_uri(srv) # None /\ seg = subtitle_uri(srv)[1][2]
                /\ seg # srv.video_file.file_uri
                  => reply[1] = [status |-> 200, file |-> srv.subtitle_file[1].file_path]
           /\ subtitle_uri(srv) = None /\ seg = DummySubtitle /\ seg # srv.video_file.file_uri
                /\ srv.video_file.file_path \in existing
                  => reply[1].status = 200

(***************************************************************************)
(* C28: a lookup returns the text of the first entry, in stored order,     *)
(* whose interval [start_time, end_time] contains the position, both       *)
(* bounds included, and None when no entry contains it; the entries stay   *)
(* in the order of the file's events, never re-sorted.                     *)
(***************************************************************************)
C28_FirstCoveringEntry ==
    /\ Len(entries) = Len(events)
    /\ \A i \in 1..Len(entries) : entries[i] = SubtitleEntry(events[i])
    /\ sbpc = "returned" =>
         LET hits == {i \in 1..Len(entries) :
                         /\ entries[i].start_time <= current_time_ms
                         /\ current_time_ms <= entries[i].end_time}
         IN /\ hits = {} => subtitle = None
            /\ hits # {} =>
                 \E i \in hits : (\A j \in hits : i <= j) /\ subtitle = Some(entries[i].text)

\* a lookup at the end of the first entry's interval, which the second
\* entry, stored after it and starting before it, contains too: the text of
\* the first is returned
C28_Witness ==
    /\ sbpc = "returned"
    /\ Len(entries) = 2
    /\ entries[2].start_time < entries[1].start_time
    /\ entries[1].start_time < entries[1].end_time
    /\ current_time_ms = entries[1].end_time
    /\ current_time_ms <= entries[2].end_time
    /\ entries[1].text # entries[2].text
    /\ subtitle = Some(entries[1].text)

(***************************************************************************)
(* C30: the TUI's status update task never waits for the lock of the       *)
(* shared state: whoever holds the lock, its tick goes through with one    *)
(* try_lock; when that met the lock held by someone else the task made no  *)
(* update and is waiting for its next tick, and it updates only under a    *)
(* lock that the try_lock of the same tick found free.                     *)
(***************************************************************************)
C30_UpdaterNeverWaits ==
    /\ upc = "tick" => ENABLED UpdaterTick
    /\ tried # None /\ tried[1] # "none" => upc \in {"tick", "aborted"}
    /\ upc \in {"transport", "position"} => lock = "updater" /\ tried = Some("none")
    /\ mpc \in {"transport", "position"} => lock = "main"

\* the update task ticked while the event loop refreshed the status under
\* the lock, after an update of its own: it skipped that tick and awaits
\* the next
C30_Witness ==
    /\ mpc \in {"transport", "position"}
    /\ lock = "main"
    /\ tried = Some("main")
    /\ upc = "tick"
    /\ last_update = "updater"

(***************************************************************************)
(* Vocabulary of the TUI's properties.                                     *)
(***************************************************************************)
\* the event loop is at a lock().await of the shared state
MainWantsLock == mpc \in {"check", "draw", "key", "message", "refresh"}

\* the update task is inside update_status, awaiting the device
UpdaterCallsDevice == upc \in {"transport", "position"}

(***************************************************************************)
(* C31: the event loop's acquisition of the lock of the shared state never *)
(* has to wait for an update task that is in the middle of its             *)
(* GetTransportInfo / GetPositionInfo calls.                               *)
(***************************************************************************)
C31_RenderNeverWaitsForUpdater ==
    MainWantsLock => ~(lock = "updater" /\ UpdaterCallsDevice)

(***************************************************************************)
(* C39: the key handler never holds the lock while it awaits               *)
(* toggle_play_pause or pause: it has released the lock before the call    *)
(* and acquires it again afterwards to record the outcome; and no task is  *)
(* at an acquisition of the lock while it holds the lock itself.           *)
(***************************************************************************)
C39_NoLockOverRemoteCall ==
    /\ mpc = "toggling" => lock # "main"
    /\ mpc = "message" => lock # "main" /\ ((ENABLED MainMessage) <=> lock = "none")
    /\ MainWantsLock => lock # "main"
    /\ upc = "tick" => lock # "updater"

\* the key handler awaits pause() on 's' while the update task, which found
\* the lock free, updates the status under it
C39_Witness ==
    /\ mpc = "toggling"
    /\ key_code = "s"
    /\ lock = "updater"
    /\ tried = Some("none")
    /\ upc = "transport"

(***************************************************************************)
(* C40: once q or Esc has been handled should_quit is true and stays true; *)
(* the event loop then handles no further key and leaves at its next       *)
(* iteration; and when run() has returned the update task is aborted (or   *)
(* has ended) and makes no status update any more.                         *)
(***************************************************************************)
C40_Quit ==
    [][/\ should_quit => should_quit'
       /\ (mpc = "key" /\ key_code = "q" /\ mpc' # mpc) => should_quit'
       /\ should_quit' => mpc' \in {"check", "cleanup", "returned"}
       /\ (should_quit /\ mpc = "check" /\ mpc' # mpc) => mpc' = "cleanup"
       /\ mpc' = "returned" => upc' \in {"aborted", "done"} /\ lock' # "updater"
       /\ mpc = "returned" => last_update' = last_update /\ upc' = upc]_vars

\* run() has returned after q was handled: the update task, which had
\* updated the status, is aborted
C40_Witness ==
    /\ mpc = "returned"
    /\ should_quit
    /\ key_code = "q"
    /\ upc = "aborted"
    /\ lock = "none"
    /\ last_update = "updater"

ClockStarted == cur > 0 /\ clock[cur] # "none"

\* dlna::play has been called for the current entry and its Play action has
\* succeeded: playback is under way
PlaybackProceeds == cur > 0 /\ pc = "join" /\ server[cur] # "none"

\* C33: the subtitle-sync clock is started for an entry only if
\* --subtitle-sync was given and the session's server has a subtitle file
\* (and SubtitleSyncer::new succeeded on it); when SubtitleSyncer::new fails
\* the entry is not given up: dlna::play is called with no syncer, the
\* command has not returned because of it, and no clock is ever started for
\* the entry.
C33_ClockOnlyWithSyncer ==
    /\ ClockStarted =>
         subtitle_sync /\ subtitle_file # None /\ syncer_new = "ok"
    /\ syncer_new = "err" =>
         /\ ~ClockStarted
         /\ cur > 0
         /\ pc # "idle" \/ ret[cur] # NoRet

\* SubtitleSyncer::new failed and the entry plays all the same, with no clock
C33_Witness ==
    /\ syncer_new = "err"
    /\ PlaybackProceeds
    /\ clock[cur] = "none"

(***************************************************************************)
(* C34: when Clipboard::new fails SubtitleSyncer::new still returns Ok and  *)
(* the syncer has no clipboard; from then on no update_clipboard calls     *)
(* set_text (every push is skipped and reported as an error string), the   *)
(* clipboard field stays None and Clipboard::new is not called again.      *)
(***************************************************************************)
C34_NoClipboardNoPush ==
    /\ [](clip_init = "err" =>
            /\ sbpc \in {"ready", "returned"}
            /\ clipboard = None
            /\ push \in {"none", "skipped"}
            /\ push # "none" => UpdateClipboardResult(push) # "Ok")
    /\ [][clip_init = "err" => clip_init' = "err" /\ clipboard' = None]_vars

\* a syncer built without a clipboard was asked to push at a time a subtitle
\* covers, and skipped the write
C34_Witness ==
    /\ clip_init = "err"
    /\ sbpc = "returned"
    /\ subtitle # None
    /\ push = "skipped"

(***************************************************************************)
(* C35                                                                     *)
(***************************************************************************)
\* the string has the form H:M:S, S with or without a decimal part
FormHMS(s) ==
    /\ Len(s.parts) = 3
    /\ \A j \in 1..2 : s.seps[j] = ":"
    /\ ParseU64(s.parts[1]) # None
    /\ ParseU64(s.parts[2]) # None
    /\ ParseF64(s.parts[3]) # None

\* the string has the form H:M:S,mmm
FormHMSmmm(s) ==
    /\ Len(s.parts) = 4
    /\ s.seps = << ":", ":", "," >>
    /\ \A i \in 1..4 : ParseU64(s.parts[i]) # None

\* the number a field of digits stands for is beyond the products below
Large(p) == p = BigPart

\* C35: time_str_to_milliseconds never panics; for H:M:S it returns
\* (H*3600 + M*60 + S)*1000, for H:M:S,mmm it returns
\* H*3600000 + M*60000 + S*1000 + mmm, and for every other string 0.  (A
\* number beyond u64::MAX is returned by no call.)
C35_TotalAndExact ==
    time_str # None =>
        LET s == time_str[1]
            r == time_ret[1]
            f == s.parts
        IN /\ ~r.panicked
           /\ FormHMS(s) =>
                /\ \A i \in 1..3 : ~Large(f[i])
                /\ r.value = (ParseU64(f[1])[1] * 3600 + ParseU64(f[2])[1] * 60) * 1000
                               + ParseF64(f[3])[1]
           /\ FormHMSmmm(s) =>
                /\ \A i \in 1..3 : ~Large(f[i])
                /\ Large(f[4]) => \A i \in 1..3 : f[i] = "0"
                /\ r.value = ParseU64(f[1])[1] * 3600000 + ParseU64(f[2])[1] * 60000
                               + ParseU64(f[3])[1] * 1000 + ParseU64(f[4])[1]
           /\ ~FormHMS(s) /\ ~FormHMSmmm(s) => r.value = 0

(***************************************************************************)
(* C36                                                                     *)
(***************************************************************************)
\* the actions of the two commands that have gone to the device in this call
CommandsSent ==
    {a \in {"Pause", "Play"} : Events(a, "send") # {}}

\* the read of the transport state has failed in this call
ReadFailed == tpc # "idle" /\ Events("GetTransportInfo", "err") # {}

\* C36: when get_transport_info fails, toggle_play_pause returns at once
\* with the error of that read (DlnaActionFailed) and neither Pause nor Play
\* goes to the device; and in every call at most one of the two commands is
\* called and at most one of the two actions is sent, however often the
\* retry policy sends it.
C36_ReadFailureSendsNothing ==
    /\ ReadFailed =>
         /\ tpc = "returned"
         /\ toggle_result.kind = "DlnaActionFailed"
         /\ toggle_result.source \in ErrVals
         /\ commands = << >>
         /\ CommandsSent = {}
    /\ Len(commands) <= 1
    /\ Cardinality(CommandsSent) <= 1

\* a call whose read failed has returned that failure
C36_Witness ==
    /\ ReadFailed
    /\ tpc = "returned"
    /\ toggle_result.kind = "DlnaActionFailed"
    /\ log = << << cur, "GetTransportInfo", "send" >>, << cur, "GetTransportInfo", "err" >> >>

(***************************************************************************)
(* C37: within a call of play() the subtitle-sync clock is started in the  *)
(* step that follows the successful completion of Play and in no other; as *)
(* long as play() has not got Ok from Play its clock does not exist and    *)
(* has polled nothing, and only a started clock sends GetPositionInfo.     *)
(***************************************************************************)
C37_ClockAfterPlay ==
    /\ []((cur > 0 /\ pc \in {"start", "set_uri", "play"}) =>
            /\ clock[cur] = "none"
            /\ lastTick = None \/ lastTick[1] # cur)
    /\ [][\A s \in Sessions :
            /\ (clock[s] = "none" /\ clock'[s] # "none") =>
                 /\ s = cur
                 /\ pc = "play" /\ pc' = "join"
                 /\ retry.pc = "returned" /\ retry.result[1].ok
                 /\ Events("Play", "ok") # {}
                 /\ clock'[s] = "waiting"
            /\ (clock[s] # "polling" /\ clock'[s] = "polling") =>
                 clock[s] = "waiting"]_vars

\* the clock of the running play() polls the device; Play has succeeded and
\* play() awaits the server
C37_Witness ==
    /\ cur > 0
    /\ pc = "join"
    /\ syncer
    /\ clock[cur] = "polling"

(***************************************************************************)
(* C38: when every call of dlna::play returns an error the play command    *)
(* eventually leaves its loop and returns, and what it returns once a file *)
(* was played is the last failure, with --playlist as well as without.     *)
(***************************************************************************)
C38_TerminatesOnFailure ==
    /\ <>(cliPc = "done" /\ cmd_result # None)
    /\ []((cliPc = "done" /\ cur > 0 /\ cmd_result[1].kind \notin BuildErrors) =>
            /\ cmd_result = Some(play_result)
            /\ play_result \in PlayErrors)

====
